---- MODULE Spec2Model ----
(***************************************************************************)
(* Payment-event ingestion pipeline (jamesenki/payments-ingestion).        *)
(*                                                                         *)
(* The module models                                                       *)
(*   - the Event Hubs consumer (consumer/event_hubs.py),                   *)
(*   - the connection handling of the Event Hubs and Kafka consumers       *)
(*     (consumer/event_hubs.py, consumer/kafka.py),                        *)
(*   - the database connection pool (connections/database_pool.py),        *)
(*   - the function entry point process_payment_transactions and its       *)
(*     database helpers (run.py),                                          *)
(*   - the buffered blob archiver BlobRawEventStore                        *)
(*     (storage/blob_raw_event_store.py),                                  *)
(*   - the 5-minute window computation and the payment_metrics_5m upsert   *)
(*     of the aggregate helpers (run.py),                                  *)
(*   - the transaction parser (parsing/parser.py).                         *)
(*                                                                         *)
(* The specifications share the variables:                                 *)
(*   Spec        the consume / process / checkpoint path, with the         *)
(*               archiver running beside it,                               *)
(*   SpecTx      the same path with upload errors that are not retried,    *)
(*   SpecKill    the same path in a fault-free environment, with the       *)
(*               process killed and restarted,                             *)
(*   SpecStore   the archiver alone, driven by a client thread and its     *)
(*               flush-timer thread,                                       *)
(*   SpecWindow  the window computation over sampled timestamps,           *)
(*   SpecConn    a consumer object driven through its public methods,      *)
(*   SpecReconnect  the reconnect handler entered again and again,         *)
(*   SpecPool    the connection pool driven by a caller,                   *)
(*   SpecMerge   upserts into the payment_metrics_5m aggregate table,      *)
(*   SpecPartition  the archiver of SpecStore with the UTC calendar day,   *)
(*   SpecParse   the transaction parser over sampled payloads,             *)
(*   SpecDp      threads calling parse_batch and reset_metrics on one      *)
(*               DataParser,                                               *)
(*   SpecClose   close() of the archiver with buffer_event calls of a      *)
(*               second thread.                                            *)
(***************************************************************************)
EXTENDS Integers, Sequences, FiniteSets, TLC

VARIABLES
    \* ---- BlobRawEventStore ------------------------------------------------
    buffer,           \* self._buffer: sequence of event ids
    buffer_lock,      \* owner of self._buffer_lock: "free", "proc" or "timer"
    flush_timer,      \* self._flush_timer: "none", "armed" or "fired"
    callbacks,        \* flush_callback threads started and waiting for the lock
    io,               \* what the lock holder's flush is doing: "none", "upload",
                      \* "caught" (an upload raised), "backoff"
    attempt,          \* loop variable of _upload_with_retry
    delay,            \* seconds of the current back-off sleep (0 when not sleeping)
    events_to_flush,  \* local copy of the buffer taken by the running flush
    blobs,            \* uploaded blobs, in upload order; a blob is its events
    events_stored,    \* self._events_stored
    events_failed,    \* self._events_failed
    last_error,       \* self._last_error: "none" or the reason of the last failed flush
    exc,              \* exception caught by _upload_with_retry: "none", "transient",
                      \* "permanent" (AzureError) or "unexpected" (any other)
    blob_service_client, \* self.blob_service_client: "client" or "None"
    batches_flushed,  \* self._batches_flushed
    call,             \* the calling thread's store call: "idle", "buf_wait",
                      \* "flush_wait", "busy", "ret_ok", "ret_err"
    call_ev,          \* the event passed to buffer_event (0: none)
    accepted,         \* number of buffer_event calls made by the client
    \* ---- relational store -------------------------------------------------
    dyn,              \* dynamic_metrics: committed rows per transaction id
    agg,              \* payment_metrics_5m: upserts committed per transaction id
    hist,             \* aggregate_histograms: upserts committed per transaction id
    failed_items,     \* failed_items rows, in insertion order
    conns_out,        \* pool connections handed out and not given back
    ret,              \* return value of the last database helper
    db_attempts,      \* times the last database helper ran its statements
    \* ---- broker and Event Hubs consumer -------------------------------------
    stream,           \* the partition: sequence of messages
    checkpoint,       \* durable partition checkpoint (messages covered)
    next_offset,      \* next message the broker delivers to this consumer
    connected,        \* self._connected and self._client is not None
    events_received,  \* events_received of the running consume_batch
    \* ---- processor ---------------------------------------------------------
    pc,               \* position of the consume loop / entry point
    batch,            \* the batch under processing: sequence of offsets
    idx,              \* index of the current message in batch
    raw_payload,      \* local raw_payload: offset of the payload it holds, 0 if unbound
    kills,            \* process kills so far
    \* ---- window computation -------------------------------------------------
    t_in,             \* event timestamp handed to the aggregate helper
    win,              \* the window the upsert was issued with, "unset" or "ValueError"
    \* ---- consumer connection (EventHubsConsumer / KafkaConsumer) ---------------
    adapter,          \* the consumer class: "event_hubs" or "kafka"
    connected_flag,   \* self._connected
    client,           \* self._client / self._consumer: "None" or "client"
    reconnect_attempts, \* self._reconnect_attempts
    backoff,          \* seconds _handle_connection_error sleeps (0 when not sleeping)
    api,              \* position of the caller inside the consumer's methods
    api_op,           \* the method called last
    api_ret,          \* what the method called last returned or raised
    position,         \* messages the broker has delivered to this consumer
    committed_offset, \* Kafka: offset committed to the consumer group
    failed_attempts,  \* reconnect attempts that failed since the last successful connect
    api_calls,        \* method calls made so far
    api_batch,        \* the batch the method called last was given: "empty",
                      \* "batch", or "none" for a method without a batch argument
    \* ---- DatabaseConnectionPool ------------------------------------------------
    initialized,      \* self._initialized and self._pool is not None
    pool_used,        \* connections the psycopg2 pool has handed out
    metrics,          \* self._metrics
    pool_ret,         \* what the last pool call returned or raised
    pool_calls,       \* pool calls made so far
    free_recent,      \* free connections of the psycopg2 pool used within idle_timeout
    free_long,        \* free connections of the psycopg2 pool idle for longer
    ret_idle,         \* the connection get_connection returned: "recent", "idle_long"
                      \* ("none" when it returned none)
    probes,           \* results of the health probes of the last get_connection
    pool_closed,      \* close_all() has closed a pool
    \* ---- payment_metrics_5m upsert -------------------------------------------
    payment_metrics_5m, \* the aggregate table: key -> row, or "absent"
    upserts,          \* amounts of the upserts committed so far, per key, in order
    \* ---- archive date partitions ----------------------------------------------
    utc_day,          \* the UTC day datetime.utcnow() falls on
    created_at,       \* created_at (UTC day) of each event handed to the archiver
    path_day,         \* dd= day of the blob path the running flush generated
    blob_day,         \* dd= day of the path of each uploaded blob, in upload order
    \* ---- TransactionParser ----------------------------------------------------
    data,             \* json.loads(message_body): field -> value, a value with
                      \* its Python type ("missing": the key is absent)
    parse_result,     \* ParseResult of parse_and_validate
    \* ---- DataParser -----------------------------------------------------------
    parser_metrics,   \* self._metrics: total_processed, successful, failed
    metrics_lock,     \* owner of self._metrics_lock: "free" or a thread
    parse_pc,         \* position of each thread inside parse_batch
    messages,         \* the messages each thread passed to parse_batch
    results,          \* the results list of each thread's parse_batch
    handled,          \* what the dead-letter handler did, per thread and invocation
    resets            \* reset_metrics calls made so far

storeVars == <<buffer, buffer_lock, flush_timer, callbacks, io, attempt, delay,
               events_to_flush, blobs, events_stored, events_failed, last_error,
               exc, blob_service_client,
               batches_flushed, call, call_ev, accepted>>
dbVars == <<dyn, agg, hist, failed_items, conns_out, ret, db_attempts>>
brokerVars == <<stream, checkpoint, next_offset, connected, events_received>>
procVars == <<pc, batch, idx, raw_payload, kills>>
winVars == <<t_in, win>>
connVars == <<adapter, connected_flag, client, reconnect_attempts, backoff, api,
              api_op, api_ret, position, committed_offset, failed_attempts, api_calls, api_batch>>
poolVars == <<initialized, pool_used, metrics, pool_ret, pool_calls, free_recent,
              free_long, ret_idle, probes, pool_closed>>
mergeVars == <<payment_metrics_5m, upserts>>
calVars == <<utc_day, created_at, path_day, blob_day>>
parseVars == <<data, parse_result>>
dpVars == <<parser_metrics, metrics_lock, parse_pc, messages, results, handled, resets>>
auxVars == <<mergeVars, calVars, parseVars, dpVars>>
vars == <<storeVars, dbVars, brokerVars, procVars, winVars, connVars, poolVars, auxVars>>

----------------------------------------------------------------------------
(* Bounds of the model *)

\* batch_size the archiver is configured with (BLOB_BATCH_SIZE)
BatchSize == 2
\* events the client of SpecStore buffers
MaxEvents == 3
\* flush_callback threads alive at once
MaxCallbacks == 1

\* messages on the partition
StreamLen == 2
\* max_messages the loop passes to consume_batch
MaxMessages == 2
\* process kills in SpecKill
MaxKills == 1
\* method calls a caller makes on a consumer
MaxCalls == 5
\* batches the broker delivers to a consumer
MaxPolls == 2
\* invocations of _handle_connection_error in a row
MaxHandlerCalls == 12
\* calls made on the connection pool
MaxPoolCalls == 12
\* upserts committed to payment_metrics_5m
MaxUpserts == 3
\* the last UTC day the archiver runs on (it starts on day 1)
LastDay == 2
\* messages a thread passes to parse_batch
MaxBatch == 2
\* reset_metrics calls
MaxResets == 1

(* Program constants *)

\* DatabaseConnectionPool(max_connections=10)
max_connections == 10

\* DatabaseConnectionPool(min_connections=2)
min_connections == 2

\* DatabaseConnectionPool(idle_timeout=300)
idle_timeout == 300

\* _extract_metrics returns three metric dictionaries
metrics_per_tx == 3

\* _upload_with_retry(max_retries=3)
max_retries == 3

\* self._max_reconnect_attempts = 10
max_reconnect_attempts == 10

\* self._base_backoff_seconds = 2
base_backoff_seconds == 2

\* self._max_backoff_seconds = 30
max_backoff_seconds == 30

\* retry_delays = [1, 2, 4], indexed by attempt + 1
retry_delays == <<1, 2, 4>>

\* max_buffer_size: configured above batch_size, as the defaults 5000 > 1000 are
max_buffer_size == BatchSize + 1

----------------------------------------------------------------------------
(* BlobRawEventStore *)

\* The lock owner while thread t runs _flush_buffer_unsafe: flush_buffer and
\* buffer_event call it inside `with self._buffer_lock`, so t keeps the lock
\* through serialization, upload and the back-off sleeps.
FlushLockOwner_Released(t) == "free"
FlushLockOwner(t) == t

\* _route_to_dead_letter_queue of the store: the rows it inserts into
\* failed_items for the events of a failed flush. The insert is a TODO: it only
\* counts and logs.
StoreDeadLetterRows(events, reason) == <<>>

\* What the call of the client thread becomes when its flush starts I/O, ends
\* well, or raises.
CallBusy(c) == IF c = "close_wait" THEN "close_busy" ELSE "busy"
CallOk(c) == IF c \in {"busy", "close_busy"} THEN "ret_ok" ELSE c
CallErr(c) == IF c \in {"busy", "close_busy"} THEN "ret_err" ELSE c

\* self._buffer after events_to_flush = self._buffer.copy(): self._buffer.clear()
BufferAfterCopy_Kept(b) == b
BufferAfterCopy(b) == <<>>

\* Start of _flush_buffer_unsafe by thread t with the lock held and buffer b
\* (non-empty): copy, clear, stop the timer, serialize, and enter
\* _upload_with_retry. S is the set of outcomes _serialize_to_parquet can have.
\* With blob_service_client cleared by close(), get_blob_client raises
\* AttributeError, which the flush handles as a storage error.
FlushTake(t, b, S) ==
    /\ buffer' = BufferAfterCopy(b)
    /\ flush_timer' = "none"
    /\ \E ser \in S :
         IF ser = "ok" /\ blob_service_client = "client"
         THEN /\ events_to_flush' = b
              /\ buffer_lock' = FlushLockOwner(t)
              /\ io' = "upload"
              /\ attempt' = 0
              /\ events_failed' = events_failed
              /\ last_error' = last_error
              /\ failed_items' = failed_items
              /\ call' = IF t = "proc" THEN CallBusy(call) ELSE call
         ELSE \* dead-letter routing, StorageError raised
              /\ events_to_flush' = <<>>
              /\ buffer_lock' = "free"
              /\ io' = "none"
              /\ attempt' = 0
              /\ events_failed' = events_failed + Len(b)
              /\ last_error' = IF ser = "ok" THEN "Storage error" ELSE "Serialization error"
              /\ failed_items' = failed_items \o
                    StoreDeadLetterRows(b, IF ser = "ok" THEN "Storage error"
                                                       ELSE "Serialization error")
              /\ call' = IF t = "proc" THEN "ret_err" ELSE call
    /\ UNCHANGED <<delay, blobs, events_stored, batches_flushed, exc, blob_service_client>>

\* buffer_event's flush condition on the length after the append: overflow
\* protection or batch size reached
SizeTrigger_OffByOne(buffer_size) == buffer_size > max_buffer_size \/ buffer_size > BatchSize
SizeTrigger(buffer_size) == buffer_size >= max_buffer_size \/ buffer_size >= BatchSize

\* the timer after an append that does not flush: _start_flush_timer() when
\* the event is the first of the buffer
TimerAfterAppend_BeforeAppend(buffer_size, timer) ==
    IF buffer_size = 0 THEN "armed" ELSE timer
TimerAfterAppend(buffer_size, timer) == IF buffer_size = 1 THEN "armed" ELSE timer

\* buffer_event(event), from the lock acquisition to the first network I/O or
\* to the return.
BufferEventLocked(S) ==
    /\ call = "buf_wait"
    /\ buffer_lock = "free"
    /\ LET nb == Append(buffer, call_ev)
           buffer_size == Len(nb)
       IN  IF SizeTrigger(buffer_size)
           THEN FlushTake("proc", nb, S)
           ELSE /\ buffer' = nb
                /\ flush_timer' = TimerAfterAppend(buffer_size, flush_timer)
                /\ call' = "ret_ok"
                /\ UNCHANGED <<buffer_lock, io, attempt, delay, events_to_flush,
                               blobs, events_stored, events_failed, last_error,
                               exc, blob_service_client,
                               batches_flushed, failed_items>>
    /\ UNCHANGED <<callbacks, call_ev, accepted>>

\* flush_buffer() called by the client thread (flush()).
FlushBufferLocked(S) ==
    /\ call = "flush_wait"
    /\ buffer_lock = "free"
    /\ IF buffer = <<>>
       THEN /\ call' = "ret_ok"
            /\ UNCHANGED <<buffer, buffer_lock, flush_timer, io, attempt, delay,
                           events_to_flush, blobs, events_stored, events_failed, last_error,
                           exc, blob_service_client,
                           batches_flushed, failed_items>>
       ELSE FlushTake("proc", buffer, S)
    /\ UNCHANGED <<callbacks, call_ev, accepted>>

\* The Timer expires: flush_callback starts on its own thread.
TimerFire ==
    /\ flush_timer = "armed"
    /\ callbacks < MaxCallbacks
    /\ flush_timer' = "fired"
    /\ callbacks' = callbacks + 1
    /\ UNCHANGED <<buffer, buffer_lock, io, attempt, delay, events_to_flush,
                   blobs, events_stored, events_failed, last_error,
                   exc, blob_service_client, batches_flushed, call,
                   call_ev, accepted, failed_items>>

\* flush_callback: flush_buffer() on the timer thread.
TimerFlushLocked(S) ==
    /\ callbacks > 0
    /\ buffer_lock = "free"
    /\ callbacks' = callbacks - 1
    /\ IF buffer = <<>>
       THEN UNCHANGED <<buffer, buffer_lock, flush_timer, io, attempt, delay,
                        events_to_flush, blobs, events_stored, events_failed, last_error,
                        exc, blob_service_client,
                        batches_flushed, call, failed_items>>
       ELSE FlushTake("timer", buffer, S)
    /\ UNCHANGED <<call_ev, accepted>>

\* One upload_blob call of _upload_with_retry succeeds: the flush completes.
\* When the flush is close()'s, close goes on to clear blob_service_client.
UploadOk ==
    /\ io = "upload"
    /\ blobs' = Append(blobs, events_to_flush)
    /\ events_stored' = events_stored + Len(events_to_flush)
    /\ batches_flushed' = batches_flushed + 1
    /\ events_to_flush' = <<>>
    /\ io' = "none"
    /\ attempt' = 0
    /\ call' = CallOk(call)
    /\ blob_service_client' =
          IF call = "close_busy" THEN "None" ELSE blob_service_client
    /\ buffer_lock' = "free"
    /\ UNCHANGED <<buffer, flush_timer, callbacks, delay, events_failed, last_error,
                   exc, call_ev, accepted, failed_items>>

\* the kinds of exception upload_blob can raise
UploadErrors == {"transient", "permanent", "unexpected"}

\* One upload_blob call raises and the exception is caught. K is the set of
\* kinds the storage service produces.
UploadError(K) ==
    /\ io = "upload"
    /\ \E kind \in K : exc' = kind
    /\ io' = "caught"
    /\ UNCHANGED <<buffer, buffer_lock, flush_timer, callbacks, attempt, delay,
                   events_to_flush, blobs, events_stored, events_failed, last_error,
                   blob_service_client, batches_flushed, call, call_ev, accepted,
                   failed_items>>

\* self._is_transient_error(e) and attempt < max_retries, for an AzureError
ShouldRetry_AnyAzureError(kind, a) == kind \in {"transient", "permanent"} /\ a < max_retries
ShouldRetry_OneLess(kind, a) == kind = "transient" /\ a < max_retries - 1
ShouldRetry(kind, a) == kind = "transient" /\ a < max_retries

\* The except branch of _upload_with_retry: a transient AzureError before the
\* last attempt sleeps retry_delays[attempt] and retries; anything else raises
\* StorageError, and the flush routes its events to dead-letter handling and
\* raises.
HandleUploadError ==
    /\ io = "caught"
    /\ IF ShouldRetry(exc, attempt)
       THEN /\ io' = "backoff"
            /\ delay' = retry_delays[attempt + 1]
            /\ UNCHANGED <<events_to_flush, events_failed, last_error, failed_items,
                           call, buffer_lock, attempt, exc>>
       ELSE /\ io' = "none"
            /\ delay' = 0
            /\ attempt' = 0
            /\ exc' = "none"
            /\ events_failed' = events_failed + Len(events_to_flush)
            /\ last_error' = "Storage error"
            /\ failed_items' = failed_items \o
                  StoreDeadLetterRows(events_to_flush, "Storage error")
            /\ events_to_flush' = <<>>
            /\ call' = CallErr(call)
            /\ buffer_lock' = "free"
    /\ UNCHANGED <<buffer, flush_timer, callbacks, blobs, events_stored,
                   batches_flushed, call_ev, accepted, blob_service_client>>

\* time.sleep(delay) of _upload_with_retry returns: next attempt.
BackoffDone ==
    /\ io = "backoff"
    /\ io' = "upload"
    /\ attempt' = attempt + 1
    /\ delay' = 0
    /\ exc' = "none"
    /\ UNCHANGED <<buffer, buffer_lock, flush_timer, callbacks, events_to_flush,
                   blobs, events_stored, events_failed, last_error,
                   blob_service_client, batches_flushed, call, call_ev, accepted,
                   failed_items>>

----------------------------------------------------------------------------
(* The archiver alone: a client thread calls store_event and flush. *)

ClientBuffer ==
    /\ call = "idle"
    /\ accepted < MaxEvents
    /\ call' = "buf_wait"
    /\ call_ev' = accepted + 1
    /\ accepted' = accepted + 1
    /\ UNCHANGED <<buffer, buffer_lock, flush_timer, callbacks, io, attempt, delay,
                   events_to_flush, blobs, events_stored, events_failed, last_error,
                   exc, blob_service_client,
                   batches_flushed, failed_items>>

ClientFlush ==
    /\ call = "idle"
    /\ call' = "flush_wait"
    /\ UNCHANGED <<buffer, buffer_lock, flush_timer, callbacks, io, attempt, delay,
                   events_to_flush, blobs, events_stored, events_failed, last_error,
                   exc, blob_service_client,
                   batches_flushed, call_ev, accepted, failed_items>>

ClientReturn ==
    /\ call \in {"ret_ok", "ret_err"}
    /\ call' = "idle"
    /\ call_ev' = 0
    /\ UNCHANGED <<buffer, buffer_lock, flush_timer, callbacks, io, attempt, delay,
                   events_to_flush, blobs, events_stored, events_failed, last_error,
                   exc, blob_service_client,
                   batches_flushed, accepted, failed_items>>

\* close(): _stop_flush_timer(), before the lock is taken
ClientClose ==
    /\ call = "idle"
    /\ call' = "close_wait"
    /\ flush_timer' = "none"
    /\ UNCHANGED <<buffer, buffer_lock, callbacks, io, attempt, delay,
                   events_to_flush, blobs, events_stored, events_failed, last_error,
                   exc, blob_service_client, batches_flushed, call_ev, accepted,
                   failed_items>>

\* close(): flush_buffer() and, when it returns, blob_service_client = None
CloseFlushLocked(S) ==
    /\ call = "close_wait"
    /\ buffer_lock = "free"
    /\ IF buffer = <<>>
       THEN /\ call' = "ret_ok"
            /\ blob_service_client' = "None"
            /\ UNCHANGED <<buffer, buffer_lock, flush_timer, io, attempt, delay,
                           events_to_flush, blobs, events_stored, events_failed,
                           last_error, exc, batches_flushed, failed_items>>
       ELSE FlushTake("proc", buffer, S)
    /\ UNCHANGED <<callbacks, call_ev, accepted>>

InitStore ==
    /\ buffer = <<>>
    /\ buffer_lock = "free"
    /\ flush_timer = "none"
    /\ callbacks = 0
    /\ io = "none"
    /\ attempt = 0
    /\ delay = 0
    /\ events_to_flush = <<>>
    /\ blobs = <<>>
    /\ events_stored = 0
    /\ events_failed = 0
    /\ last_error = "none"
    /\ exc = "none"
    /\ blob_service_client = "client"
    /\ batches_flushed = 0
    /\ call = "idle"
    /\ call_ev = 0
    /\ accepted = 0

InitDb ==
    /\ dyn = <<>>
    /\ agg = <<>>
    /\ hist = <<>>
    /\ failed_items = <<>>
    /\ conns_out = 0
    /\ ret = FALSE
    /\ db_attempts = 0

InitIdleBroker ==
    /\ stream = <<>>
    /\ checkpoint = 0
    /\ next_offset = 0
    /\ connected = FALSE
    /\ events_received = <<>>

InitIdleProc ==
    /\ pc = "off"
    /\ batch = <<>>
    /\ idx = 0
    /\ raw_payload = 0
    /\ kills = 0

InitIdleWin ==
    /\ t_in = [day |-> 1, hour |-> 0, minute |-> 0, second |-> 0]
    /\ win = [status |-> "unset"]

\* a consumer object as __init__ leaves it, with no caller
InitIdleConn ==
    /\ adapter = "event_hubs"
    /\ connected_flag = FALSE
    /\ client = "None"
    /\ reconnect_attempts = 0
    /\ backoff = 0
    /\ api = "off"
    /\ api_op = "none"
    /\ api_ret = "none"
    /\ position = 0
    /\ committed_offset = 0
    /\ failed_attempts = 0
    /\ api_calls = 0
    /\ api_batch = "none"

\* a pool object as __init__ leaves it, with no caller
InitIdlePool ==
    /\ initialized = FALSE
    /\ pool_used = 0
    /\ metrics = [total_acquired |-> 0, total_released |-> 0, pool_exhaustions |-> 0,
                  health_check_failures |-> 0, recycled_connections |-> 0]
    /\ pool_ret = "off"
    /\ pool_calls = 0
    /\ free_recent = 0
    /\ free_long = 0
    /\ ret_idle = "none"
    /\ probes = <<>>
    /\ pool_closed = FALSE

\* the aggregate keys (window_start, payment_method, currency, payment_status)
Keys == {"k1", "k2"}

\* no row of payment_metrics_5m for a key
NoRow == [total_count |-> 0, total_amount |-> 0, avg_amount |-> <<0, 1>>,
          min_amount |-> 0, max_amount |-> 0]

\* an empty payment_metrics_5m table
InitIdleMerge ==
    /\ payment_metrics_5m = [k \in Keys |-> NoRow]
    /\ upserts = [k \in Keys |-> <<>>]

\* an archiver no event has been created for
InitIdleCal ==
    /\ utc_day = 1
    /\ created_at = <<>>
    /\ path_day = 0
    /\ blob_day = <<>>

\* ParseResult before parse_and_validate has returned
NotParsed == [success |-> FALSE, field |-> "none", constraint |-> "not parsed",
              timestamp |-> "none"]

\* a payload with every field valid
ValidData ==
    [transaction_id |-> [type |-> "str", value |-> "id-1"],
     correlation_id |-> [type |-> "str", value |-> "id-1"],
     timestamp |-> [type |-> "str", value |-> "2024-01-01T00:00:00Z", iso |-> TRUE],
     amount |-> [type |-> "float", num |-> 10],
     currency |-> [type |-> "str", value |-> "USD", len |-> 3],
     merchant_id |-> [type |-> "str", value |-> "id-1"],
     customer_id |-> [type |-> "str", value |-> "id-1"],
     status |-> [type |-> "str", value |-> "SUCCESS"]]

\* a parser that has not been called
InitIdleParse ==
    /\ data = ValidData
    /\ parse_result = NotParsed

\* the threads that call the DataParser
Threads == {"t1", "t2"}

\* self._metrics as __init__ and reset_metrics set it
ZeroMetrics == [total_processed |-> 0, successful |-> 0, failed |-> 0]

\* a DataParser nobody calls
InitIdleDp ==
    /\ parser_metrics = ZeroMetrics
    /\ metrics_lock = "free"
    /\ parse_pc = [t \in Threads |-> "done"]
    /\ messages = [t \in Threads |-> <<>>]
    /\ results = [t \in Threads |-> <<>>]
    /\ handled = [t \in Threads |-> <<>>]
    /\ resets = 0

InitIdleAux == InitIdleMerge /\ InitIdleCal /\ InitIdleParse /\ InitIdleDp

----------------------------------------------------------------------------
(* Messages on the partition *)

\* minutes of the event timestamps the sample messages carry
SampleMinutes == {10, 57}

\* A message body is not JSON ("badjson"), JSON that fails validation
\* ("invalid"), or a valid transaction with an event timestamp.
MsgKinds ==
    {[kind |-> "valid", minute |-> m] : m \in SampleMinutes}
        \cup {[kind |-> "invalid", minute |-> 0], [kind |-> "badjson", minute |-> 0]}

Offsets == 1..StreamLen

Streams == [Offsets -> MsgKinds]

----------------------------------------------------------------------------
(* 5-minute window of the aggregate helpers *)

\* datetime.replace(minute=m) raises ValueError unless 0 <= m <= 59
ReplaceMinuteOk(m) == m \in 0..59

\* window_start = timestamp.replace(minute=(minute // 5) * 5, second=0, microsecond=0)
WindowStart(t) == [t EXCEPT !.minute = (t.minute \div 5) * 5, !.second = 0]

\* window_end = window_start.replace(minute=window_start.minute + 5) raises
\* ValueError when the window starts at minute 55
WindowEndRaises(ws) == ~ReplaceMinuteOk(ws.minute + 5)

WindowEnd(ws) == [ws EXCEPT !.minute = ws.minute + 5]

\* The (window_start, window_end) pair the upsert statement is executed with,
\* or the ValueError raised before cursor.execute.
UpsertWindow(t) ==
    IF WindowEndRaises(WindowStart(t))
    THEN [status |-> "ValueError"]
    ELSE [status |-> "executed",
          start |-> WindowStart(t),
          end |-> WindowEnd(WindowStart(t))]

\* the timestamp of a sample message
MsgTime(m) == [day |-> 1, hour |-> 12, minute |-> m.minute, second |-> 30]

----------------------------------------------------------------------------
(* Database helpers of run.py *)

\* conn_manager.release_postgres_connection(conn) in each helper's finally:
\* HybridStorageConnectionManager defines return_postgres_connection only, so
\* the call raises AttributeError and the connection stays checked out.
ReleaseRaises == TRUE

\* What a helper returns: `return True` after the commit is replaced by the
\* exception raised in finally, which the outer except turns into False.
HelperReturn(committed) == IF ReleaseRaises THEN FALSE ELSE committed

\* rows of dynamic_metrics committed by one _store_dynamic_metrics call:
\* one INSERT per metric, one commit after the loop
DynRows_Partial(n) == 1
DynRows(n) == n

AddRows(table, o, n) == [table EXCEPT ![o] = @ + n]

\* get_postgres_connection, the helper body, the finally. `commit` is the
\* helper's database effect when its statements and commit succeed; F is the
\* set of outcomes the database can produce.
DbHelper(F, canCommit, CommitEffect, NoEffect) ==
    IF conns_out >= max_connections
    THEN \* pool exhausted: PoolError from get_postgres_connection
         /\ NoEffect
         /\ ret' = FALSE
         /\ db_attempts' = 0
         /\ UNCHANGED conns_out
    ELSE /\ conns_out' = IF ReleaseRaises THEN conns_out + 1 ELSE conns_out
         \* the statements and the commit run once: the helper has no loop
         /\ db_attempts' = 1
         /\ \E outcome \in F :
              IF outcome = "commit" /\ canCommit
              THEN /\ CommitEffect
                   /\ ret' = HelperReturn(TRUE)
              ELSE /\ NoEffect
                   /\ ret' = HelperReturn(FALSE)

CurOffset == batch[idx]
CurMsg == stream[CurOffset]

\* _store_dynamic_metrics
StoreDynamicMetrics(F) ==
    /\ pc = "dyn"
    /\ LET Eff == dyn' = AddRows(dyn, CurOffset, DynRows(metrics_per_tx))
       IN  DbHelper(F, TRUE, Eff, dyn' = dyn)
    /\ pc' = "agg"
    /\ UNCHANGED <<agg, hist, failed_items, storeVars, brokerVars, batch, idx,
                   raw_payload, kills, winVars, connVars, poolVars, auxVars>>

\* _update_payment_metrics_5m
UpdatePaymentMetrics5m(F) ==
    /\ pc = "agg"
    /\ LET Eff == agg' = AddRows(agg, CurOffset, 1)
       IN  DbHelper(F, UpsertWindow(MsgTime(CurMsg)).status = "executed", Eff, agg' = agg)
    /\ pc' = "hist"
    /\ UNCHANGED <<dyn, hist, failed_items, storeVars, brokerVars, batch, idx,
                   raw_payload, kills, winVars, connVars, poolVars, auxVars>>

\* _update_aggregate_histograms
UpdateAggregateHistograms(F) ==
    /\ pc = "hist"
    /\ LET Eff == hist' = AddRows(hist, CurOffset, metrics_per_tx)
       IN  DbHelper(F, UpsertWindow(MsgTime(CurMsg)).status = "executed", Eff, hist' = hist)
    /\ pc' = "next"
    /\ UNCHANGED <<dyn, agg, failed_items, storeVars, brokerVars, batch, idx,
                   raw_payload, kills, winVars, connVars, poolVars, auxVars>>

\* _route_to_dead_letter_queue of run.py: one INSERT into failed_items. A row
\* is its transaction_id (tx), error_type and raw_payload (payload: the offset
\* of the message the payload came from, 0 for {} / "unknown"); src records the
\* message whose handling wrote the row.
RouteToDeadLetterQueue(F, row) ==
    LET Eff == failed_items' = Append(failed_items, row)
    IN  DbHelper(F, TRUE, Eff, failed_items' = failed_items)

----------------------------------------------------------------------------
(* EventHubsConsumer *)

\* partition_context.update_checkpoint() in on_event: the checkpoint covers
\* the partition up to the event being handled
UpdateCheckpoint(o) == o

\* connect()
Connect ==
    /\ pc = "start"
    /\ connected' = TRUE
    /\ pc' = "connected"
    /\ UNCHANGED <<stream, checkpoint, next_offset, events_received, batch, idx,
                   raw_payload, kills, storeVars, dbVars, winVars, connVars, poolVars, auxVars>>

\* consume_batch up to the start of receive
ConsumeBatch ==
    /\ pc = "consume"
    /\ connected
    /\ events_received' = <<>>
    /\ pc' = "receiving"
    /\ UNCHANGED <<stream, checkpoint, next_offset, connected, batch, idx,
                   raw_payload, kills, storeVars, dbVars, winVars, connVars, poolVars, auxVars>>

\* on_event for the next event of the partition; at max_messages it updates
\* the checkpoint and stops the receive, and consume_batch returns the batch
OnEvent ==
    /\ pc = "receiving"
    /\ next_offset < Len(stream)
    /\ LET o == next_offset + 1
           er == Append(events_received, o)
       IN  /\ next_offset' = o
           /\ IF Len(er) >= MaxMessages
              THEN /\ checkpoint' = UpdateCheckpoint(o)
                   /\ batch' = er
                   /\ events_received' = <<>>
                   /\ pc' = "batch_ready"
              ELSE /\ events_received' = er
                   /\ UNCHANGED <<checkpoint, batch, pc>>
    /\ UNCHANGED <<stream, connected, idx, raw_payload, kills, storeVars, dbVars,
                   winVars, connVars, poolVars, auxVars>>

\* asyncio.TimeoutError ends the receive: the batch of what was received, or
\* None when nothing was
ReceiveTimeout ==
    /\ pc = "receiving"
    /\ IF events_received # <<>>
       THEN /\ batch' = events_received
            /\ pc' = "batch_ready"
       ELSE /\ batch' = <<>>
            /\ pc' = "no_batch"
    /\ events_received' = <<>>
    /\ UNCHANGED <<stream, checkpoint, next_offset, connected, idx, raw_payload,
                   kills, storeVars, dbVars, winVars, connVars, poolVars, auxVars>>

\* acknowledge_batch(batch): validates, logs
AcknowledgeBatch ==
    /\ pc = "ack"
    /\ connected /\ batch # <<>>
    /\ pc' = "acked"
    /\ UNCHANGED <<brokerVars, batch, idx, raw_payload, kills, storeVars, dbVars,
                   winVars, connVars, poolVars, auxVars>>

\* checkpoint(batch): validates, logs; the partition checkpoint is not touched
Checkpoint ==
    /\ pc = "ckpt"
    /\ connected /\ batch # <<>>
    /\ pc' = "checkpointed"
    /\ batch' = <<>>
    /\ idx' = 0
    /\ UNCHANGED <<brokerVars, raw_payload, kills, storeVars, dbVars, winVars, connVars, poolVars, auxVars>>

----------------------------------------------------------------------------
(* process_payment_transactions *)

\* entry: the loop over event_bodies starts
ProcessStart ==
    /\ pc = "process"
    /\ idx' = 1
    /\ raw_payload' = 0
    /\ pc' = "msg"
    /\ UNCHANGED <<batch, kills, storeVars, dbVars, brokerVars, winVars, connVars, poolVars, auxVars>>

\* json.loads(event_body) and parser.parse_and_validate(message_body)
ParseMessage ==
    /\ pc = "msg"
    /\ IF CurMsg.kind = "badjson"
       THEN /\ pc' = "dlq_exc"
            /\ UNCHANGED raw_payload
       ELSE /\ raw_payload' = CurOffset
            /\ pc' = IF CurMsg.kind = "invalid" THEN "dlq_val" ELSE "blob"
    /\ UNCHANGED <<batch, idx, kills, storeVars, dbVars, brokerVars, winVars, connVars, poolVars, auxVars>>

\* not parse_result.success: dead-letter row, continue
RouteValidationError(F) ==
    /\ pc = "dlq_val"
    /\ RouteToDeadLetterQueue(F, [src |-> CurOffset,
                                  tx |-> raw_payload,
                                  error_type |-> "validation_error",
                                  payload |-> raw_payload])
    /\ pc' = "next"
    /\ UNCHANGED <<dyn, agg, hist, storeVars, brokerVars, batch, idx,
                   raw_payload, kills, winVars, connVars, poolVars, auxVars>>

\* except Exception: dead-letter row built from whatever raw_payload is bound
\* to (the previous message's payload, or nothing in the first iteration)
RouteProcessingError(F) ==
    /\ pc = "dlq_exc"
    /\ RouteToDeadLetterQueue(F, [src |-> CurOffset,
                                  tx |-> raw_payload,
                                  error_type |-> "processing_error",
                                  payload |-> raw_payload])
    /\ pc' = "next"
    /\ UNCHANGED <<dyn, agg, hist, storeVars, brokerVars, batch, idx,
                   raw_payload, kills, winVars, connVars, poolVars, auxVars>>

\* _store_raw_event_to_blob: blob_store.store_event(raw_event) is called
StoreRawEvent ==
    /\ pc = "blob"
    /\ call = "idle"
    /\ call' = "buf_wait"
    /\ call_ev' = CurOffset
    /\ pc' = "blob_wait"
    /\ UNCHANGED <<buffer, buffer_lock, flush_timer, callbacks, io, attempt, delay,
                   events_to_flush, blobs, events_stored, events_failed, last_error,
                   exc, blob_service_client,
                   batches_flushed, accepted, dbVars, brokerVars, batch, idx,
                   raw_payload, kills, winVars, connVars, poolVars, auxVars>>

\* where the workflow goes after _store_raw_event_to_blob: its except clause
\* turns every exception of store_event into None, and a blob_path of None is
\* only logged
AfterStoreRawEvent_Abort(c) == IF c = "ret_err" THEN "next" ELSE "dyn"
AfterStoreRawEvent(c) == "dyn"

\* store_event returned None or raised BufferError (caught, logged): the
\* workflow continues with the metrics either way
StoreRawEventDone ==
    /\ pc = "blob_wait"
    /\ call \in {"ret_ok", "ret_err"}
    /\ call' = "idle"
    /\ call_ev' = 0
    /\ pc' = AfterStoreRawEvent(call)
    /\ UNCHANGED <<buffer, buffer_lock, flush_timer, callbacks, io, attempt, delay,
                   events_to_flush, blobs, events_stored, events_failed, last_error,
                   exc, blob_service_client,
                   batches_flushed, accepted, dbVars, brokerVars, batch, idx,
                   raw_payload, kills, winVars, connVars, poolVars, auxVars>>

\* end of one loop iteration; after the last one the function returns
NextMessage ==
    /\ pc = "next"
    /\ IF idx < Len(batch)
       THEN /\ idx' = idx + 1
            /\ pc' = "msg"
       ELSE /\ idx' = idx
            /\ pc' = "returned"
    /\ UNCHANGED <<batch, raw_payload, kills, storeVars, dbVars, brokerVars,
                   winVars, connVars, poolVars, auxVars>>

\* The loop of the processor around the consumer and the entry point:
\* connect, then repeatedly consume a batch, process it, acknowledge it,
\* checkpoint it; an empty consume goes round again.
LoopStep(p) ==
    CASE p = "connected" -> "consume"
      [] p = "no_batch" -> "consume"
      [] p = "checkpointed" -> "consume"
      [] p = "batch_ready" -> "process"
      [] p = "returned" -> "ack"
      [] p = "acked" -> "ckpt"

ProcessorLoop ==
    /\ pc \in {"connected", "no_batch", "checkpointed", "batch_ready", "returned", "acked"}
    /\ pc' = LoopStep(pc)
    /\ UNCHANGED <<batch, idx, raw_payload, kills, storeVars, dbVars, brokerVars,
                   winVars, connVars, poolVars, auxVars>>

\* The process is killed and restarted: memory is lost, the database, the
\* blobs and the partition checkpoint stay.
Kill ==
    /\ pc # "off"
    /\ kills < MaxKills
    /\ kills' = kills + 1
    /\ buffer' = <<>> /\ buffer_lock' = "free" /\ flush_timer' = "none"
    /\ callbacks' = 0 /\ io' = "none" /\ attempt' = 0 /\ delay' = 0
    /\ events_to_flush' = <<>> /\ events_stored' = 0 /\ events_failed' = 0
    /\ last_error' = "none"
    /\ exc' = "none"
    /\ blob_service_client' = "client"
    /\ batches_flushed' = 0 /\ call' = "idle" /\ call_ev' = 0
    /\ conns_out' = 0 /\ ret' = FALSE /\ db_attempts' = 0
    /\ next_offset' = checkpoint
    /\ connected' = FALSE
    /\ events_received' = <<>>
    /\ pc' = "start" /\ batch' = <<>> /\ idx' = 0 /\ raw_payload' = 0
    /\ UNCHANGED <<blobs, accepted, dyn, agg, hist, failed_items, stream,
                   checkpoint, winVars, connVars, poolVars, auxVars>>

----------------------------------------------------------------------------
(* Specifications of the consume path *)

InitProc ==
    /\ InitStore
    /\ dyn = [o \in Offsets |-> 0]
    /\ agg = [o \in Offsets |-> 0]
    /\ hist = [o \in Offsets |-> 0]
    /\ failed_items = <<>>
    /\ conns_out = 0
    /\ ret = FALSE
    /\ db_attempts = 0
    /\ stream \in Streams
    /\ checkpoint = 0
    /\ next_offset = 0
    /\ connected = FALSE
    /\ events_received = <<>>
    /\ pc = "start"
    /\ batch = <<>>
    /\ idx = 0
    /\ raw_payload = 0
    /\ kills = 0
    /\ InitIdleWin /\ InitIdleConn /\ InitIdlePool /\ InitIdleAux

\* what the database can do with a helper's transaction
DbOutcomes == {"commit", "fail"}

\* what _serialize_to_parquet can do
SerOutcomes == {"ok", "BufferError"}

othersOfStore == <<dyn, agg, hist, conns_out, ret, db_attempts, brokerVars, procVars, winVars, connVars, poolVars, auxVars>>

Next ==
    \/ Connect
    \/ ProcessorLoop
    \/ ConsumeBatch
    \/ OnEvent
    \/ ReceiveTimeout
    \/ ProcessStart
    \/ ParseMessage
    \/ RouteValidationError(DbOutcomes)
    \/ RouteProcessingError(DbOutcomes)
    \/ StoreRawEvent
    \/ StoreRawEventDone
    \/ StoreDynamicMetrics(DbOutcomes)
    \/ UpdatePaymentMetrics5m(DbOutcomes)
    \/ UpdateAggregateHistograms(DbOutcomes)
    \/ NextMessage
    \/ AcknowledgeBatch
    \/ Checkpoint
    \/ (BufferEventLocked(SerOutcomes) /\ UNCHANGED othersOfStore)
    \/ (TimerFire /\ UNCHANGED othersOfStore)
    \/ (TimerFlushLocked(SerOutcomes) /\ UNCHANGED othersOfStore)
    \/ (UploadOk /\ UNCHANGED othersOfStore)
    \/ (UploadError(UploadErrors) /\ UNCHANGED othersOfStore)
    \/ (HandleUploadError /\ UNCHANGED othersOfStore)
    \/ (BackoffDone /\ UNCHANGED othersOfStore)

Spec == InitProc /\ [][Next]_vars

\* The consume path with a storage service whose upload errors are permanent
\* (no upload is retried); the database and the serializer fail as in Spec.
NextTx ==
    \/ Connect
    \/ ProcessorLoop
    \/ ConsumeBatch
    \/ OnEvent
    \/ ReceiveTimeout
    \/ ProcessStart
    \/ ParseMessage
    \/ RouteValidationError(DbOutcomes)
    \/ RouteProcessingError(DbOutcomes)
    \/ StoreRawEvent
    \/ StoreRawEventDone
    \/ StoreDynamicMetrics(DbOutcomes)
    \/ UpdatePaymentMetrics5m(DbOutcomes)
    \/ UpdateAggregateHistograms(DbOutcomes)
    \/ NextMessage
    \/ AcknowledgeBatch
    \/ Checkpoint
    \/ (BufferEventLocked(SerOutcomes) /\ UNCHANGED othersOfStore)
    \/ (TimerFire /\ UNCHANGED othersOfStore)
    \/ (TimerFlushLocked(SerOutcomes) /\ UNCHANGED othersOfStore)
    \/ (UploadOk /\ UNCHANGED othersOfStore)
    \/ (UploadError({"permanent"}) /\ UNCHANGED othersOfStore)
    \/ (HandleUploadError /\ UNCHANGED othersOfStore)

SpecTx == InitProc /\ [][NextTx]_vars

\* The consume path in a fault-free environment (the database commits, the
\* uploads succeed), with the process killed and restarted.
NextKill ==
    \/ Connect
    \/ ProcessorLoop
    \/ ConsumeBatch
    \/ OnEvent
    \/ ReceiveTimeout
    \/ ProcessStart
    \/ ParseMessage
    \/ RouteValidationError({"commit"})
    \/ RouteProcessingError({"commit"})
    \/ StoreRawEvent
    \/ StoreRawEventDone
    \/ StoreDynamicMetrics({"commit"})
    \/ UpdatePaymentMetrics5m({"commit"})
    \/ UpdateAggregateHistograms({"commit"})
    \/ NextMessage
    \/ AcknowledgeBatch
    \/ Checkpoint
    \/ (BufferEventLocked({"ok"}) /\ UNCHANGED othersOfStore)
    \/ (TimerFire /\ UNCHANGED othersOfStore)
    \/ (TimerFlushLocked({"ok"}) /\ UNCHANGED othersOfStore)
    \/ (UploadOk /\ UNCHANGED othersOfStore)
    \/ Kill

SpecKill == InitProc /\ [][NextKill]_vars

----------------------------------------------------------------------------
(* Specification of the archiver alone *)

InitStoreSpec ==
    /\ InitStore /\ InitDb /\ InitIdleBroker /\ InitIdleProc /\ InitIdleWin
    /\ InitIdleConn /\ InitIdlePool /\ InitIdleAux

NextStore ==
    \/ (BufferEventLocked(SerOutcomes) /\ UNCHANGED othersOfStore)
    \/ (FlushBufferLocked(SerOutcomes) /\ UNCHANGED othersOfStore)
    \/ (TimerFire /\ UNCHANGED othersOfStore)
    \/ (TimerFlushLocked(SerOutcomes) /\ UNCHANGED othersOfStore)
    \/ (UploadOk /\ UNCHANGED othersOfStore)
    \/ (UploadError(UploadErrors) /\ UNCHANGED othersOfStore)
    \/ (HandleUploadError /\ UNCHANGED othersOfStore)
    \/ (BackoffDone /\ UNCHANGED othersOfStore)
    \/ (ClientBuffer /\ UNCHANGED othersOfStore)
    \/ (ClientFlush /\ UNCHANGED othersOfStore)
    \/ (ClientClose /\ UNCHANGED othersOfStore)
    \/ (CloseFlushLocked(SerOutcomes) /\ UNCHANGED othersOfStore)
    \/ (ClientReturn /\ UNCHANGED othersOfStore)

SpecStore == InitStoreSpec /\ [][NextStore]_vars

----------------------------------------------------------------------------
(* Specification of the window computation *)

\* sampled event timestamps: every minute of the first, a middle and the last
\* hour of a day
SampleHours == {0, 12, 23}
SampleSeconds == {0, 59}
SampleTimes ==
    [day : {1}, hour : SampleHours, minute : 0..59, second : SampleSeconds]

InitWindow ==
    /\ InitStore /\ InitDb /\ InitIdleBroker /\ InitIdleProc
    /\ InitIdleConn /\ InitIdlePool /\ InitIdleAux
    /\ t_in \in SampleTimes
    /\ win = [status |-> "unset"]

\* the window lines of _update_payment_metrics_5m / _update_aggregate_histograms
\* for a transaction with timestamp t_in
ComputeWindow ==
    /\ win.status = "unset"
    /\ win' = UpsertWindow(t_in)
    /\ UNCHANGED <<t_in, storeVars, dbVars, brokerVars, procVars, connVars, poolVars, auxVars>>

NextWindow ==
    \/ ComputeWindow

SpecWindow == InitWindow /\ [][NextWindow]_vars

----------------------------------------------------------------------------
(* The consumer's connection: EventHubsConsumer and KafkaConsumer.  The two
   classes have the same connect, disconnect, is_connected, consume_batch
   error handling and _handle_connection_error; they differ in
   acknowledge_batch and checkpoint. *)

Min(a, b) == IF a < b THEN a ELSE b

\* backoff of _handle_connection_error for the counter value k
Backoff_NoCap(k) == base_backoff_seconds * 2^(k - 1)
Backoff(k) == Min(base_backoff_seconds * 2^(k - 1), max_backoff_seconds)

\* is_connected()
IsConnected_Always(flag, cl) == TRUE
IsConnected(flag, cl) == flag /\ cl # "None"

\* a caller enters method op
Call(op) ==
    /\ api = "idle"
    /\ api_calls < MaxCalls
    /\ api_op' = op
    /\ api_calls' = api_calls + 1

\* connect() up to the creation of the client: returns at once when connected
AdapterConnect ==
    /\ Call("connect")
    /\ api_batch' = "none"
    /\ IF IsConnected(connected_flag, client)
       THEN /\ api' = "idle"
            /\ api_ret' = "ok"
       ELSE /\ api' = "connecting"
            /\ api_ret' = "none"
    /\ UNCHANGED <<adapter, connected_flag, client, reconnect_attempts, backoff,
                   position, committed_offset, failed_attempts>>

\* what creating the client and testing the connection can do: both succeed,
\* the constructor raises, or the partition lookup raises with the client set
ConnectOutcomes == {"ok", "create_fails", "test_fails"}

\* the rest of connect(), called by the caller or by _handle_connection_error
\* (which swallows its ConnectionError)
ConnectEnd(O) ==
    /\ api \in {"connecting", "reconnecting"}
    /\ \E o \in O :
         /\ IF o = "ok"
            THEN /\ client' = "client"
                 /\ connected_flag' = TRUE
                 /\ reconnect_attempts' = 0
                 /\ failed_attempts' = 0
            ELSE /\ client' = IF o = "test_fails" THEN "client" ELSE client
                 /\ connected_flag' = FALSE
                 /\ failed_attempts' =
                        IF api = "reconnecting" THEN failed_attempts + 1
                        ELSE failed_attempts
                 /\ UNCHANGED reconnect_attempts
         /\ IF api = "connecting"
            THEN /\ api' = "idle"
                 /\ api_ret' = IF o = "ok" THEN "ok"
                               ELSE "ConnectionError: failed to connect"
            ELSE /\ api' = "handled"
                 /\ UNCHANGED api_ret
    /\ UNCHANGED <<adapter, backoff, api_op, position, committed_offset, api_calls, api_batch>>

\* disconnect() up to the close of the client: returns at once when there is
\* nothing to close
AdapterDisconnect ==
    /\ Call("disconnect")
    /\ api_batch' = "none"
    /\ IF ~connected_flag /\ client = "None"
       THEN /\ api' = "idle"
            /\ api_ret' = "ok"
       ELSE /\ api' = "disconnecting"
            /\ api_ret' = "none"
    /\ UNCHANGED <<adapter, connected_flag, client, reconnect_attempts, backoff,
                   position, committed_offset, failed_attempts>>

\* the rest of disconnect(): the same state whether close() raised or not
DisconnectEnd ==
    /\ api = "disconnecting"
    /\ client' = "None"
    /\ connected_flag' = FALSE
    /\ api' = "idle"
    /\ api_ret' = "ok"
    /\ UNCHANGED <<adapter, reconnect_attempts, backoff, api_op, position,
                   committed_offset, failed_attempts, api_calls, api_batch>>

\* consume_batch up to the receive / poll
AdapterConsumeBatch ==
    /\ Call("consume_batch")
    /\ api_batch' = "none"
    /\ IF ~IsConnected(connected_flag, client)
       THEN /\ api' = "idle"
            /\ api_ret' = "ConnectionError: not connected"
       ELSE /\ api' = "receiving"
            /\ api_ret' = "none"
    /\ UNCHANGED <<adapter, connected_flag, client, reconnect_attempts, backoff,
                   position, committed_offset, failed_attempts>>

\* what the receive / poll can do: deliver messages, time out, raise
ReceiveOutcomes == {"batch", "None", "error"}

\* the receive / poll ends: a batch, None, or an exception that starts
\* _handle_connection_error
ReceiveEnd(O) ==
    /\ api = "receiving"
    /\ \E o \in O :
         CASE o = "batch" ->
                /\ position < MaxPolls
                /\ position' = position + 1
                /\ api' = "idle"
                /\ api_ret' = "batch"
           [] o = "None" ->
                /\ api' = "idle"
                /\ api_ret' = "None"
                /\ UNCHANGED position
           [] o = "error" ->
                /\ api' = "handle"
                /\ UNCHANGED <<position, api_ret>>
    /\ UNCHANGED <<adapter, connected_flag, client, reconnect_attempts, backoff,
                   api_op, committed_offset, failed_attempts, api_calls, api_batch>>

\* _handle_connection_error up to its sleep: counts the attempt, gives up
\* beyond max_reconnect_attempts, otherwise computes the backoff
HandleConnectionError ==
    /\ api = "handle"
    /\ reconnect_attempts' = reconnect_attempts + 1
    /\ IF reconnect_attempts + 1 > max_reconnect_attempts
       THEN /\ connected_flag' = FALSE
            /\ api' = "handled"
            /\ UNCHANGED backoff
       ELSE /\ backoff' = Backoff(reconnect_attempts + 1)
            /\ api' = "sleep"
            /\ UNCHANGED connected_flag
    /\ UNCHANGED <<adapter, client, api_op, api_ret, position, committed_offset,
                   failed_attempts, api_calls, api_batch>>

\* time.sleep(backoff) is over: the handler drops the client and calls connect()
SleepDone ==
    /\ api = "sleep"
    /\ connected_flag' = FALSE
    /\ client' = "None"
    /\ backoff' = 0
    /\ api' = "reconnecting"
    /\ UNCHANGED <<adapter, reconnect_attempts, api_op, api_ret, position,
                   committed_offset, failed_attempts, api_calls, api_batch>>

\* consume_batch after _handle_connection_error returned: raises
\* ConnectionError whatever the handler did
ConsumeRaise ==
    /\ api = "handled"
    /\ api_op = "consume_batch"
    /\ api' = "idle"
    /\ api_ret' = "ConnectionError: failed to consume batch"
    /\ UNCHANGED <<adapter, connected_flag, client, reconnect_attempts, backoff,
                   api_op, position, committed_offset, failed_attempts, api_calls, api_batch>>

\* the batch argument of acknowledge_batch and checkpoint
BatchArgs == {"empty", "batch"}

\* what KafkaConsumer.commit() can do
CommitOutcomes == {"ok", "raises"}

\* the batch check: not batch or batch.is_empty()
IsEmptyBatch_Never(b) == FALSE
IsEmptyBatch(b) == b = "empty"

\* acknowledge_batch(batch) and checkpoint(batch): the connection check, the
\* batch check, then Event Hubs: a log line; Kafka: self._consumer.commit()
CommitCall(op, B, O) ==
    /\ Call(op)
    /\ api' = "idle"
    /\ \E b \in B, o \in O :
         /\ api_batch' = b
         /\ IF ~IsConnected(connected_flag, client)
            THEN /\ api_ret' = "ConnectionError: not connected"
                 /\ UNCHANGED committed_offset
            ELSE IF IsEmptyBatch(b)
            THEN /\ api_ret' = "ValueError"
                 /\ UNCHANGED committed_offset
            ELSE IF adapter = "event_hubs"
            THEN /\ api_ret' = "ok"
                 /\ UNCHANGED committed_offset
            ELSE IF o = "ok"
            THEN /\ api_ret' = "ok"
                 /\ committed_offset' = position
            ELSE /\ api_ret' = "KafkaError"
                 /\ UNCHANGED committed_offset
    /\ UNCHANGED <<adapter, connected_flag, client, reconnect_attempts, backoff,
                   position, failed_attempts>>

AdapterAcknowledgeBatch == CommitCall("acknowledge_batch", BatchArgs, CommitOutcomes)

AdapterCheckpoint == CommitCall("checkpoint", BatchArgs, CommitOutcomes)

\* a consumer of either class after __init__, with a caller
InitConn ==
    /\ adapter \in {"event_hubs", "kafka"}
    /\ connected_flag = FALSE
    /\ client = "None"
    /\ reconnect_attempts = 0
    /\ backoff = 0
    /\ api = "idle"
    /\ api_op = "none"
    /\ api_ret = "none"
    /\ position = 0
    /\ committed_offset = 0
    /\ failed_attempts = 0
    /\ api_calls = 0
    /\ api_batch = "none"

othersOfConn == <<storeVars, dbVars, brokerVars, procVars, winVars, poolVars, auxVars>>

InitConnSpec ==
    /\ InitStore /\ InitDb /\ InitIdleBroker /\ InitIdleProc /\ InitIdleWin
    /\ InitIdlePool /\ InitIdleAux
    /\ InitConn

\* a caller using the consumer's public methods in any order
NextConn ==
    \/ (AdapterConnect /\ UNCHANGED othersOfConn)
    \/ (ConnectEnd(ConnectOutcomes) /\ UNCHANGED othersOfConn)
    \/ (AdapterDisconnect /\ UNCHANGED othersOfConn)
    \/ (DisconnectEnd /\ UNCHANGED othersOfConn)
    \/ (AdapterConsumeBatch /\ UNCHANGED othersOfConn)
    \/ (ReceiveEnd(ReceiveOutcomes) /\ UNCHANGED othersOfConn)
    \/ (HandleConnectionError /\ UNCHANGED othersOfConn)
    \/ (SleepDone /\ UNCHANGED othersOfConn)
    \/ (ConsumeRaise /\ UNCHANGED othersOfConn)
    \/ (AdapterAcknowledgeBatch /\ UNCHANGED othersOfConn)
    \/ (AdapterCheckpoint /\ UNCHANGED othersOfConn)

SpecConn == InitConnSpec /\ [][NextConn]_vars

----------------------------------------------------------------------------
(* _handle_connection_error applied to every value of its counter: the
   handler is entered again and again while the broker stays unreachable or
   comes back *)

\* _handle_connection_error is entered
HandlerCall ==
    /\ api = "idle"
    /\ api_calls < MaxHandlerCalls
    /\ api_calls' = api_calls + 1
    /\ api_op' = "_handle_connection_error"
    /\ api' = "handle"
    /\ UNCHANGED <<adapter, connected_flag, client, reconnect_attempts, backoff,
                   api_ret, position, committed_offset, failed_attempts, api_batch>>

\* _handle_connection_error returns (None)
HandlerReturn ==
    /\ api = "handled"
    /\ api_op = "_handle_connection_error"
    /\ api' = "idle"
    /\ api_ret' = "None"
    /\ UNCHANGED <<adapter, connected_flag, client, reconnect_attempts, backoff,
                   api_op, position, committed_offset, failed_attempts, api_calls, api_batch>>

NextReconnect ==
    \/ (HandlerCall /\ UNCHANGED othersOfConn)
    \/ (HandleConnectionError /\ UNCHANGED othersOfConn)
    \/ (SleepDone /\ UNCHANGED othersOfConn)
    \/ (ConnectEnd(ConnectOutcomes) /\ UNCHANGED othersOfConn)
    \/ (HandlerReturn /\ UNCHANGED othersOfConn)

SpecReconnect == InitConnSpec /\ [][NextReconnect]_vars

----------------------------------------------------------------------------
(* DatabaseConnectionPool over psycopg2's SimpleConnectionPool.  The
   psycopg2 pool opens min_connections connections when it is created, hands
   out a free connection before it opens a new one (the one returned last
   first), and keeps a returned connection only while fewer than
   min_connections are free. *)

\* SimpleConnectionPool.getconn(): a connection, or PoolError raised at once
\* when maxconn connections are handed out; it neither waits nor returns None
Getconn(used) == IF used >= max_connections THEN "PoolError" ELSE "conn"

\* the connection getconn() hands out when r recently used and l long idle
\* connections are free: a free one, the latest returned first, else a new one
Popped(r, l) == IF r > 0 THEN "recent" ELSE IF l > 0 THEN "idle_long" ELSE "new"

\* the free connections after getconn() took one
FreeRecentAfterPop(r, l) == IF r > 0 THEN r - 1 ELSE r
FreeLongAfterPop(r, l) == IF r = 0 /\ l > 0 THEN l - 1 ELSE l

\* seconds since a connection of that kind was last in use
IdleSeconds(c) == IF c = "idle_long" THEN idle_timeout + 1 ELSE 0

\* seconds between the entry of self._connection_times that
\* _should_recycle_connection reads and its utcnow(): get_connection has
\* stored utcnow() under id(conn) a moment before, whatever the connection
TrackedIdleSeconds(c) == 0

\* _should_recycle_connection: idle_duration.total_seconds() > idle_timeout
ShouldRecycle(idle_seconds) == idle_seconds > idle_timeout

\* _validate_connection: what the SELECT 1 can find
ValidateOutcomes == {"healthy", "unhealthy"}

\* the test of get_connection on the result of _validate_connection
ProbePassed_Always(v) == TRUE
ProbePassed(v) == v = "healthy"

\* a caller enters a pool method
PoolCall ==
    /\ pool_ret # "off"
    /\ pool_calls < MaxPoolCalls
    /\ pool_calls' = pool_calls + 1

\* initialize(): nothing when initialized, else a new SimpleConnectionPool
Initialize ==
    /\ PoolCall
    /\ initialized' = TRUE
    /\ pool_ret' = "ok"
    /\ IF initialized
       THEN UNCHANGED <<pool_used, free_recent, free_long>>
       ELSE /\ pool_used' = 0
            /\ free_recent' = min_connections
            /\ free_long' = 0
    /\ ret_idle' = "none"
    /\ probes' = <<>>
    /\ UNCHANGED <<metrics, pool_closed>>

\* time passes: the free connections have been idle for more than idle_timeout
IdleTimeoutPasses ==
    /\ pool_ret # "off"
    /\ free_recent > 0
    /\ free_long' = free_long + free_recent
    /\ free_recent' = 0
    /\ UNCHANGED <<initialized, pool_used, metrics, pool_ret, pool_calls, ret_idle,
                   probes, pool_closed>>

\* get_connection(): getconn, the metrics and the time stamp, the health
\* check with its one retry, the recycling check
GetConnection(V) ==
    /\ PoolCall
    /\ IF ~initialized
       THEN /\ pool_ret' = "RuntimeError"
            /\ ret_idle' = "none"
            /\ probes' = <<>>
            /\ UNCHANGED <<pool_used, metrics, free_recent, free_long>>
       ELSE LET conn == Getconn(pool_used) IN
            IF conn = "PoolError"
            THEN \* except pool.PoolError: raise
                 /\ pool_ret' = "PoolError"
                 /\ ret_idle' = "none"
                 /\ probes' = <<>>
                 /\ UNCHANGED <<pool_used, metrics, free_recent, free_long>>
            ELSE IF conn = "None"
            THEN /\ metrics' = [metrics EXCEPT !.pool_exhaustions = @ + 1]
                 /\ pool_ret' = "PoolError"
                 /\ ret_idle' = "none"
                 /\ probes' = <<>>
                 /\ UNCHANGED <<pool_used, free_recent, free_long>>
            ELSE \E first \in V, second \in V :
                 LET c1 == Popped(free_recent, free_long)
                     r1 == FreeRecentAfterPop(free_recent, free_long)
                     l1 == FreeLongAfterPop(free_recent, free_long)
                     \* the connection taken after the first was closed
                     c2 == Popped(r1, l1)
                     r2 == FreeRecentAfterPop(r1, l1)
                     l2 == FreeLongAfterPop(r1, l1)
                 IN
                 IF ProbePassed(first)
                 THEN IF ShouldRecycle(TrackedIdleSeconds(c1))
                      THEN \* putconn(conn, close=True), getconn, one probe
                           /\ metrics' = [metrics EXCEPT !.total_acquired = @ + 1,
                                                          !.recycled_connections = @ + 1]
                           /\ probes' = <<first, second>>
                           /\ free_recent' = r2
                           /\ free_long' = l2
                           /\ IF ProbePassed(second)
                              THEN /\ pool_used' = pool_used + 1
                                   /\ pool_ret' = "conn"
                                   /\ ret_idle' = IF c2 = "new" THEN "recent" ELSE c2
                              ELSE /\ pool_ret' = "PoolError"
                                   /\ ret_idle' = "none"
                                   /\ UNCHANGED pool_used
                      ELSE /\ metrics' = [metrics EXCEPT !.total_acquired = @ + 1]
                           /\ probes' = <<first>>
                           /\ free_recent' = r1
                           /\ free_long' = l1
                           /\ pool_used' = pool_used + 1
                           /\ pool_ret' = "conn"
                           /\ ret_idle' = IF c1 = "new" THEN "recent" ELSE c1
                 ELSE /\ metrics' = [metrics EXCEPT !.total_acquired = @ + 1,
                                                    !.health_check_failures = @ + 1]
                      /\ probes' = <<first, second>>
                      /\ free_recent' = r2
                      /\ free_long' = l2
                      /\ IF ProbePassed(second)
                         THEN \* the second connection has no entry in
                              \* _connection_times: it is not recycled
                              /\ pool_used' = pool_used + 1
                              /\ pool_ret' = "conn"
                              /\ ret_idle' = IF c2 = "new" THEN "recent" ELSE c2
                         ELSE /\ pool_ret' = "PoolError"
                              /\ ret_idle' = "none"
                              /\ UNCHANGED pool_used
    /\ UNCHANGED <<initialized, pool_closed>>

\* return_connection(conn): on a pool that is not initialized a warning and
\* nothing else; otherwise putconn, which keeps the connection while fewer
\* than min_connections are free
ReturnConnection ==
    /\ PoolCall
    /\ pool_ret' = "ok"
    /\ ret_idle' = "none"
    /\ probes' = <<>>
    /\ IF ~initialized
       THEN /\ pool_closed
            /\ UNCHANGED <<pool_used, metrics, free_recent, free_long>>
       ELSE /\ pool_used > 0
            /\ metrics' = [metrics EXCEPT !.total_released = @ + 1]
            /\ pool_used' = pool_used - 1
            /\ free_recent' = IF free_recent + free_long < min_connections
                              THEN free_recent + 1 ELSE free_recent
            /\ UNCHANGED free_long
    /\ UNCHANGED <<initialized, pool_closed>>

\* close_all(): closeall, then the pool and the flag are dropped
CloseAll ==
    /\ PoolCall
    /\ pool_ret' = "ok"
    /\ ret_idle' = "none"
    /\ probes' = <<>>
    /\ pool_closed' = (pool_closed \/ initialized)
    /\ IF initialized
       THEN /\ initialized' = FALSE
            /\ pool_used' = 0
            /\ free_recent' = 0
            /\ free_long' = 0
       ELSE UNCHANGED <<initialized, pool_used, free_recent, free_long>>
    /\ UNCHANGED metrics

othersOfPool == <<storeVars, dbVars, brokerVars, procVars, winVars, connVars, auxVars>>

InitPoolSpec ==
    /\ InitStore /\ InitDb /\ InitIdleBroker /\ InitIdleProc /\ InitIdleWin
    /\ InitIdleConn /\ InitIdleAux
    /\ initialized = FALSE
    /\ pool_used = 0
    /\ metrics = [total_acquired |-> 0, total_released |-> 0, pool_exhaustions |-> 0,
                  health_check_failures |-> 0, recycled_connections |-> 0]
    /\ pool_ret = "none"
    /\ pool_calls = 0
    /\ free_recent = 0
    /\ free_long = 0
    /\ ret_idle = "none"
    /\ probes = <<>>
    /\ pool_closed = FALSE

NextPool ==
    \/ (Initialize /\ UNCHANGED othersOfPool)
    \/ (IdleTimeoutPasses /\ UNCHANGED othersOfPool)
    \/ (GetConnection(ValidateOutcomes) /\ UNCHANGED othersOfPool)
    \/ (ReturnConnection /\ UNCHANGED othersOfPool)
    \/ (CloseAll /\ UNCHANGED othersOfPool)

SpecPool == InitPoolSpec /\ [][NextPool]_vars

----------------------------------------------------------------------------
(* The payment_metrics_5m upsert of _update_payment_metrics_5m (run.py).     *)
(* Amounts are counted in minor units; the quotient of the SQL division is  *)
(* kept as a fraction in lowest terms.                                      *)

\* transaction.amount of the sampled transactions
Amounts == {1, 2, 4}

RECURSIVE Gcd(_, _)
Gcd(a, b) == IF b = 0 THEN a ELSE Gcd(b, a % b)

\* the SQL quotient total / count
Divide(total, count) ==
    LET g == Gcd(total, count) IN <<total \div g, count \div g>>

\* LEAST(a, b) and GREATEST(a, b)
Least_Excluded(a, b) == b
Least(a, b) == IF a <= b THEN a ELSE b
Greatest(a, b) == IF a >= b THEN a ELSE b

\* the row of the VALUES list: count 1 and the amount as total, avg, min, max
InsertRow(amount) ==
    [total_count |-> 1, total_amount |-> amount, avg_amount |-> <<amount, 1>>,
     min_amount |-> amount, max_amount |-> amount]

\* avg_amount of ON CONFLICT DO UPDATE
ConflictAvg_OldCount(total_amount, total_count, excluded_total) ==
    Divide(total_amount + excluded_total, total_count)
ConflictAvg(total_amount, total_count, excluded_total) ==
    Divide(total_amount + excluded_total, total_count + 1)

\* ON CONFLICT (...) DO UPDATE SET ... on the existing row
DoUpdate(row, EXCLUDED) ==
    [total_count |-> row.total_count + 1,
     total_amount |-> row.total_amount + EXCLUDED.total_amount,
     avg_amount |-> ConflictAvg(row.total_amount, row.total_count, EXCLUDED.total_amount),
     min_amount |-> Least(row.min_amount, EXCLUDED.min_amount),
     max_amount |-> Greatest(row.max_amount, EXCLUDED.max_amount)]

\* INSERT ... ON CONFLICT DO UPDATE on the row of one key
UpsertRow(row, amount) ==
    IF row = NoRow THEN InsertRow(amount) ELSE DoUpdate(row, InsertRow(amount))

\* _update_payment_metrics_5m for a transaction of key k and the given amount,
\* its statement executed and committed
UpsertPaymentMetrics(k, amount) ==
    /\ \A j \in Keys \ {k} : Len(upserts[k]) + Len(upserts[j]) < MaxUpserts
    /\ payment_metrics_5m' =
           [payment_metrics_5m EXCEPT ![k] = UpsertRow(@, amount)]
    /\ upserts' = [upserts EXCEPT ![k] = Append(@, amount)]
    /\ UNCHANGED <<storeVars, dbVars, brokerVars, procVars, winVars, connVars,
                   poolVars, calVars, parseVars, dpVars>>

InitMergeSpec ==
    /\ InitStore /\ InitDb /\ InitIdleBroker /\ InitIdleProc /\ InitIdleWin
    /\ InitIdleConn /\ InitIdlePool /\ InitIdleAux

NextMerge ==
    \/ \E k \in Keys : \E amount \in Amounts : UpsertPaymentMetrics(k, amount)

SpecMerge == InitMergeSpec /\ [][NextMerge]_vars

----------------------------------------------------------------------------
(* The date partitions of the archive: the archiver of SpecStore with the   *)
(* UTC calendar day that datetime.utcnow() reads.                           *)

othersOfPartition == <<dyn, agg, hist, conns_out, ret, db_attempts, brokerVars,
                       procVars, winVars, connVars, poolVars, mergeVars, parseVars,
                       dpVars>>

\* dd= of the path _generate_blob_path builds when utcnow() falls on day now
GenerateBlobPath(now) == now

\* get_events_by_date(target_date): the events of the blobs listed under the
\* prefix of target_date
GetEventsByDate(target_date) ==
    UNION {{blobs[b][i] : i \in 1..Len(blobs[b])} :
               b \in {c \in 1..Len(blobs) : blob_day[c] = target_date}}

\* midnight UTC passes
Midnight ==
    /\ utc_day < LastDay
    /\ utc_day' = utc_day + 1
    /\ UNCHANGED <<created_at, path_day, blob_day, storeVars, failed_items>>

\* the caller builds RawEvent(created_at=datetime.utcnow()) and calls store_event
CreateEvent ==
    /\ ClientBuffer
    /\ created_at' = Append(created_at, utc_day)
    /\ UNCHANGED <<utc_day, path_day, blob_day>>

\* a step of the archiver that may take the buffer: when it enters the upload,
\* _flush_buffer_unsafe has generated the blob path
WithBlobPath(FlushStep) ==
    /\ FlushStep
    /\ path_day' = IF io # "upload" /\ io' = "upload"
                   THEN GenerateBlobPath(utc_day) ELSE path_day
    /\ UNCHANGED <<utc_day, created_at, blob_day>>

\* the upload succeeds: the blob exists under the generated path
UploadToPath ==
    /\ UploadOk
    /\ blob_day' = Append(blob_day, path_day)
    /\ UNCHANGED <<utc_day, created_at, path_day>>

InitPartitionSpec ==
    /\ InitStore /\ InitDb /\ InitIdleBroker /\ InitIdleProc /\ InitIdleWin
    /\ InitIdleConn /\ InitIdlePool /\ InitIdleAux

NextPartition ==
    \/ (Midnight /\ UNCHANGED othersOfPartition)
    \/ (CreateEvent /\ UNCHANGED othersOfPartition)
    \/ (WithBlobPath(BufferEventLocked({"ok"})) /\ UNCHANGED othersOfPartition)
    \/ (WithBlobPath(FlushBufferLocked({"ok"})) /\ UNCHANGED othersOfPartition)
    \/ (WithBlobPath(TimerFlushLocked({"ok"})) /\ UNCHANGED othersOfPartition)
    \/ (WithBlobPath(CloseFlushLocked({"ok"})) /\ UNCHANGED othersOfPartition)
    \/ (TimerFire /\ UNCHANGED calVars /\ UNCHANGED othersOfPartition)
    \/ (UploadToPath /\ UNCHANGED othersOfPartition)
    \/ (ClientFlush /\ UNCHANGED calVars /\ UNCHANGED othersOfPartition)
    \/ (ClientClose /\ UNCHANGED calVars /\ UNCHANGED othersOfPartition)
    \/ (ClientReturn /\ UNCHANGED calVars /\ UNCHANGED othersOfPartition)

SpecPartition == InitPartitionSpec /\ [][NextPartition]_vars

----------------------------------------------------------------------------
(* TransactionParser.parse_and_validate (parsing/parser.py) over sampled     *)
(* payloads. The sampled payloads are valid JSON objects that carry           *)
(* transaction_type and channel.                                             *)

\* values of the four id fields: absent, "", a usual id, a number
IdValues ==
    {[type |-> "missing", value |-> ""], [type |-> "str", value |-> ""],
     [type |-> "str", value |-> "id-1"], [type |-> "int", value |-> "7"]}

AmountValues ==
    {[type |-> "float", num |-> 10], [type |-> "int", num |-> 0],
     [type |-> "str", num |-> 0]}

CurrencyValues ==
    {[type |-> "str", value |-> "USD", len |-> 3],
     [type |-> "str", value |-> "US", len |-> 2]}

\* values of timestamp: absent, an ISO-8601 string, a string
\* datetime.fromisoformat rejects, a number
TimestampValues ==
    {[type |-> "missing", value |-> "", iso |-> FALSE],
     [type |-> "str", value |-> "2024-01-01T00:00:00Z", iso |-> TRUE],
     [type |-> "str", value |-> "yesterday", iso |-> FALSE],
     [type |-> "int", value |-> "1704067200", iso |-> FALSE]}

StatusValues ==
    {[type |-> "str", value |-> "SUCCESS"], [type |-> "str", value |-> "pending"],
     [type |-> "missing", value |-> ""]}

\* the values of the TransactionStatus enum
TransactionStatus == {"success", "declined", "timeout", "error"}

\* str.lower() on the sampled status values
Lower(value) == IF value = "SUCCESS" THEN "success" ELSE value

\* required_fields, without the two the sampled payloads always carry
RequiredFields ==
    <<"transaction_id", "correlation_id", "timestamp", "amount", "currency",
      "merchant_id", "customer_id", "status">>

\* the fields of field_validations, in order
FieldValidations ==
    <<"transaction_id", "correlation_id", "amount", "currency", "merchant_id",
      "customer_id", "status">>

\* expected_type of field_validations
ExpectedTypes(field) == IF field = "amount" THEN {"int", "float"} ELSE {"str"}

\* the constraint a present field violates in the validation loop, "none" if
\* it passes
FieldError(field, value) ==
    IF value.type \notin ExpectedTypes(field) THEN "type"
    ELSE IF field = "amount" /\ value.num <= 0 THEN "range"
    ELSE IF field = "currency" /\ value.len # 3 THEN "format"
    ELSE IF field = "status" /\ Lower(value.value) \notin TransactionStatus
    THEN "allowed_values"
    ELSE "none"

\* the first index of a non-empty set of indices (fail-fast)
First(S) == CHOOSE i \in S : \A j \in S : i <= j

\* _validate_against_schema(data, schema_name)
ValidateAgainstSchema(d) ==
    LET missing == {i \in 1..Len(RequiredFields) :
                        d[RequiredFields[i]].type = "missing"}
        failing == {i \in 1..Len(FieldValidations) :
                        FieldError(FieldValidations[i], d[FieldValidations[i]]) # "none"}
    IN  IF missing # {}
        THEN [success |-> FALSE, field |-> RequiredFields[First(missing)],
              constraint |-> "required"]
        ELSE IF failing # {}
        THEN [success |-> FALSE, field |-> FieldValidations[First(failing)],
              constraint |-> FieldError(FieldValidations[First(failing)],
                                        d[FieldValidations[First(failing)]])]
        ELSE [success |-> TRUE, field |-> "none", constraint |-> "none"]

\* the timestamp _create_transaction gives the transaction: the parsed value
\* of the payload ("payload") or datetime.utcnow() ("utcnow")
CreateTransactionTimestamp(timestamp) ==
    IF timestamp.type = "str"
    THEN IF timestamp.iso THEN "payload" ELSE "utcnow"
    ELSE "utcnow"

\* parse_and_validate(message_body): validation, then _create_transaction,
\* which accepts whatever the validation passed
ParseAndValidate ==
    /\ parse_result = NotParsed
    /\ parse_result' =
         LET v == ValidateAgainstSchema(data)
         IN  [success |-> v.success, field |-> v.field, constraint |-> v.constraint,
              timestamp |-> IF v.success
                            THEN CreateTransactionTimestamp(data.timestamp)
                            ELSE "none"]
    /\ UNCHANGED <<data, storeVars, dbVars, brokerVars, procVars, winVars, connVars,
                   poolVars, mergeVars, calVars, dpVars>>

InitParseSpec ==
    /\ InitStore /\ InitDb /\ InitIdleBroker /\ InitIdleProc /\ InitIdleWin
    /\ InitIdleConn /\ InitIdlePool /\ InitIdleMerge /\ InitIdleCal /\ InitIdleDp
    /\ data \in [transaction_id : IdValues, correlation_id : IdValues,
                 timestamp : TimestampValues, amount : AmountValues, currency : CurrencyValues,
                 merchant_id : IdValues, customer_id : IdValues,
                 status : StatusValues]
    /\ parse_result = NotParsed

NextParse ==
    \/ ParseAndValidate

SpecParse == InitParseSpec /\ [][NextParse]_vars

----------------------------------------------------------------------------
(* DataParser (parsing/data_parser.py): threads run parse_batch on one       *)
(* parser that has a dead-letter handler, and reset_metrics is called        *)
(* beside them.                                                              *)

othersOfDp == <<storeVars, dbVars, brokerVars, procVars, winVars, connVars,
                poolVars, mergeVars, calVars, parseVars>>

\* the messages of a batch: one TransactionParser accepts, one it rejects
MessageKinds == {"valid", "invalid"}

RECURSIVE SeqsUpTo(_, _)
SeqsUpTo(S, n) ==
    IF n = 0 THEN {<<>>}
    ELSE SeqsUpTo(S, n - 1) \cup
         {Append(q, x) : q \in {r \in SeqsUpTo(S, n - 1) : Len(r) = n - 1}, x \in S}

\* result.success of self.parser.parse_and_validate(message_body)
ParseSuccess(message_body) == message_body = "valid"

\* what the caller-supplied handler can do: return, raise an exception, or
\* call get_metrics() on the parser
HandlerOutcomes == {"returns", "raises", "get_metrics"}

\* the except clause of _route_to_dead_letter around the handler call: what
\* parse_and_validate sees of a handler outcome
AfterHandler_Propagates(outcome) == IF outcome = "raises" THEN "raised" ELSE "returned"
AfterHandler(outcome) == "returned"

\* position of parse_batch after it has appended a result
AfterAppend(t, rs) == IF Len(rs) = Len(messages[t]) THEN "done" ELSE "call"

\* parse_and_validate, first critical section: total_processed += 1
CountProcessed(t) ==
    /\ parse_pc[t] = "call"
    /\ metrics_lock = "free"
    /\ parser_metrics' = [parser_metrics EXCEPT !.total_processed = @ + 1]
    /\ parse_pc' = [parse_pc EXCEPT ![t] = "parse"]
    /\ UNCHANGED <<metrics_lock, messages, results, handled, resets>>

\* parse_and_validate, the parser call and the second critical section up to
\* the handler call: successful += 1 and return, or failed += 1 and
\* _route_to_dead_letter(result, message_body) with the lock held
RecordResult(t) ==
    /\ parse_pc[t] = "parse"
    /\ metrics_lock = "free"
    /\ LET message_body == messages[t][Len(results[t]) + 1]
       IN  IF ParseSuccess(message_body)
           THEN /\ parser_metrics' = [parser_metrics EXCEPT !.successful = @ + 1]
                /\ results' = [results EXCEPT ![t] = Append(@, TRUE)]
                /\ parse_pc' = [parse_pc EXCEPT ![t] = AfterAppend(t, results'[t])]
                /\ UNCHANGED metrics_lock
           ELSE /\ parser_metrics' = [parser_metrics EXCEPT !.failed = @ + 1]
                /\ metrics_lock' = t
                /\ parse_pc' = [parse_pc EXCEPT ![t] = "handler"]
                /\ UNCHANGED results
    /\ UNCHANGED <<messages, handled, resets>>

\* self.dead_letter_handler(failed_message) runs. A handler that calls
\* get_metrics() waits in "lock_wait" for the threading.Lock its own thread
\* holds, which no step releases; one that returns or raises ends
\* _route_to_dead_letter, the with block releases the lock and
\* parse_and_validate returns the result to parse_batch.
RunHandler(t, H) ==
    /\ parse_pc[t] = "handler"
    /\ \E outcome \in H :
         /\ handled' = [handled EXCEPT ![t] = Append(@, outcome)]
         /\ IF outcome = "get_metrics"
            THEN /\ parse_pc' = [parse_pc EXCEPT ![t] = "lock_wait"]
                 /\ UNCHANGED <<metrics_lock, results>>
            ELSE IF AfterHandler(outcome) = "raised"
            THEN /\ parse_pc' = [parse_pc EXCEPT ![t] = "raised"]
                 /\ metrics_lock' = "free"
                 /\ UNCHANGED results
            ELSE /\ results' = [results EXCEPT ![t] = Append(@, FALSE)]
                 /\ parse_pc' = [parse_pc EXCEPT ![t] = AfterAppend(t, results'[t])]
                 /\ metrics_lock' = "free"
    /\ UNCHANGED <<parser_metrics, messages, resets>>

\* reset_metrics() called by another thread
ResetMetrics ==
    /\ resets < MaxResets
    /\ metrics_lock = "free"
    /\ parser_metrics' = ZeroMetrics
    /\ resets' = resets + 1
    /\ UNCHANGED <<metrics_lock, parse_pc, messages, results, handled>>

InitDpSpec ==
    /\ InitStore /\ InitDb /\ InitIdleBroker /\ InitIdleProc /\ InitIdleWin
    /\ InitIdleConn /\ InitIdlePool /\ InitIdleMerge /\ InitIdleCal /\ InitIdleParse
    /\ parser_metrics = ZeroMetrics
    /\ metrics_lock = "free"
    /\ messages \in [Threads -> SeqsUpTo(MessageKinds, MaxBatch)]
    /\ parse_pc = [t \in Threads |-> IF messages[t] = <<>> THEN "done" ELSE "call"]
    /\ results = [t \in Threads |-> <<>>]
    /\ handled = [t \in Threads |-> <<>>]
    /\ resets = 0

NextDp ==
    \/ \E t \in Threads : (CountProcessed(t) /\ UNCHANGED othersOfDp)
    \/ \E t \in Threads : (RecordResult(t) /\ UNCHANGED othersOfDp)
    \/ \E t \in Threads : (RunHandler(t, HandlerOutcomes) /\ UNCHANGED othersOfDp)
    \/ (ResetMetrics /\ UNCHANGED othersOfDp)

SpecDp == InitDpSpec /\ [][NextDp]_vars

----------------------------------------------------------------------------
(* State functions the claims about the consume path use *)

\* the metric and aggregate writes of message o are committed
Committed(o) == dyn[o] > 0 /\ agg[o] > 0

\* a dead-letter row written while handling message o is committed
DeadLettered(o) == \E i \in 1..Len(failed_items) : failed_items[i].src = o

\* the archive event of message o is in an uploaded blob
Archived(o) == \E i \in 1..Len(blobs) : \E j \in 1..Len(blobs[i]) : blobs[i][j] = o

\* the archive event of message o is in the in-memory buffer or in a flush
InArchiver(o) ==
    \/ \E j \in 1..Len(buffer) : buffer[j] = o
    \/ \E j \in 1..Len(events_to_flush) : events_to_flush[j] = o

\* the loop iteration of the current message is over
IterationDone == pc = "next"

----------------------------------------------------------------------------
(* C1 *)

\* C1: no checkpoint covers a message that is not accounted for: every
\* message up to the recorded checkpoint has its metric and aggregate writes
\* committed or its dead-letter row committed.
C1_CheckpointAfterAccounted ==
    \A o \in 1..checkpoint : Committed(o) \/ DeadLettered(o)

----------------------------------------------------------------------------
(* C2 *)

\* C2: when the entry point has returned and the batch is about to be
\* acknowledged and checkpointed, each of its messages has exactly one of
\* {metric + aggregate commit, dead-letter commit}.
C2_ExactlyOneOutcome ==
    pc = "returned" =>
        \A i \in 1..Len(batch) : Committed(batch[i]) # DeadLettered(batch[i])

----------------------------------------------------------------------------
(* C3 *)

\* everything delivered has been consumed and handled, the archiver is idle
\* with nothing buffered and no timer pending: nothing more will be produced
Quiescent ==
    /\ pc = "consume"
    /\ next_offset = Len(stream)
    /\ buffer = <<>> /\ io = "none" /\ call = "idle"
    /\ callbacks = 0 /\ flush_timer # "armed"

\* C3: with the process killed and restarted, once the processor has nothing
\* left to do, every valid message has its archive event uploaded and its
\* derived metrics committed (the outputs of the run without the kill).
C3_AtLeastOnce ==
    Quiescent =>
        \A o \in Offsets : stream[o].kind = "valid" => (Archived(o) /\ dyn[o] > 0)

----------------------------------------------------------------------------
(* C4 *)

----------------------------------------------------------------------------
(* C5 *)

\* C5: a message whose iteration ended with a metric, aggregate or histogram
\* write not committed has a dead-letter row with reason processing_error.
C5_WriteFailureDeadLettered ==
    (IterationDone /\ CurMsg.kind = "valid"
        /\ (dyn[CurOffset] = 0 \/ agg[CurOffset] = 0 \/ hist[CurOffset] = 0))
    => \E i \in 1..Len(failed_items) :
          /\ failed_items[i].src = CurOffset
          /\ failed_items[i].error_type = "processing_error"

----------------------------------------------------------------------------
(* C6 *)

\* C6: the processor does not leave a message that needs a dead-letter row
\* (and so never reaches the checkpoint of its batch) before that row is
\* committed.
C6_DeadLetterNeverAbandoned ==
    \A i \in 1..Len(batch) :
        (stream[batch[i]].kind \in {"invalid", "badjson"}
            /\ (i < idx \/ (i = idx /\ pc \notin {"msg", "dlq_val", "dlq_exc"})))
        => DeadLettered(batch[i])

----------------------------------------------------------------------------
(* C8 *)

\* C8: a message whose body is not JSON has no archive event and no metric,
\* aggregate or histogram row, and every dead-letter row written for it has
\* the reason parse_error.
C8_BadJsonParseError ==
    \A o \in Offsets : stream[o].kind = "badjson" =>
        /\ dyn[o] = 0 /\ agg[o] = 0 /\ hist[o] = 0
        /\ ~Archived(o) /\ ~InArchiver(o)
        /\ \A i \in 1..Len(failed_items) :
              failed_items[i].src = o => failed_items[i].error_type = "parse_error"

----------------------------------------------------------------------------
(* C7 *)

\* floor(t, 5 min)
Floor5(t) == [t EXCEPT !.minute = t.minute - (t.minute % 5), !.second = 0]

\* t + 5 min for t on a 5-minute boundary, carrying into the hour and the day
Plus5Min(t) ==
    IF t.minute + 5 < 60 THEN [t EXCEPT !.minute = t.minute + 5]
    ELSE IF t.hour + 1 < 24 THEN [t EXCEPT !.minute = 0, !.hour = t.hour + 1]
    ELSE [t EXCEPT !.minute = 0, !.hour = 0, !.day = t.day + 1]

\* C7: for every event timestamp t (minute 0..59, the last window of an hour
\* and of a day included) the upserts are issued with window_start = floor(t,
\* 5 min) and window_end = window_start + 5 min.
C7_WindowIssued ==
    win.status # "unset" =>
        win = [status |-> "executed",
               start |-> Floor5(t_in),
               end |-> Plus5Min(Floor5(t_in))]

----------------------------------------------------------------------------
(* C9 *)

----------------------------------------------------------------------------
(* C10 *)

StorageErrorRows == {i \in 1..Len(failed_items) : failed_items[i].error_type = "storage_error"}

\* C10: once a flush has failed in its upload, every event the store counted
\* as failed has one FailedItem row with reason storage_error.
C10_FailedFlushRows ==
    last_error = "Storage error" => Cardinality(StorageErrorRows) = events_failed

----------------------------------------------------------------------------
(* C11 *)

\* C11: every non-empty buffer has its flush pending: the timer started at
\* the buffer's first event is armed, or it has expired and its callback is
\* about to flush, or close() is about to flush; this holds for each buffer
\* that begins after a size-, timer- or manually triggered flush.
C11_TimerForEveryBuffer ==
    buffer # <<>> => (flush_timer = "armed" \/ callbacks > 0 \/ call = "close_wait")

\* a buffer begun after an earlier flush has its timer armed
C11_Witness ==
    /\ batches_flushed > 0
    /\ buffer # <<>>
    /\ flush_timer = "armed"
    /\ callbacks = 0

----------------------------------------------------------------------------
(* C12 *)

\* C12: the buffer never holds batch_size events once the append that
\* reached batch_size is over: that append flushes the whole buffer.
C12_SizeTrigger == Len(buffer) < BatchSize

\* the append of the client's event brought the buffer to batch_size and the
\* flush of the whole buffer, that event included, is under way in the call
C12_Witness ==
    /\ call = "busy"
    /\ buffer = <<>>
    /\ Len(events_to_flush) = BatchSize
    /\ events_to_flush[BatchSize] = call_ev

----------------------------------------------------------------------------
(* C13 *)

\* C13 as stated: under transient errors the upload is attempted three times
\* in total: the handling of the third failed attempt (attempt index 2) gives
\* up instead of sleeping for another attempt.
C13_ThreeAttempts ==
    [][(io = "caught" /\ io' # "caught" /\ exc = "transient") =>
          IF attempt < 2 THEN io' = "backoff" ELSE io' = "none"]_vars

\* C13 as the code has it: under transient errors the upload is attempted
\* four times in total (the first attempt and three retries), sleeping 1 s,
\* 2 s and 4 s before the second, third and fourth attempt; the fourth failure
\* gives up and the flush's events go to dead-letter handling.
C13_FourAttempts ==
    /\ [](attempt \in 0..3)
    /\ [][(io = "caught" /\ io' # "caught" /\ exc = "transient") =>
             IF attempt < 3
             THEN io' = "backoff" /\ delay' = 2^attempt /\ attempt' = attempt
             ELSE io' = "none" /\ events_failed' = events_failed + Len(events_to_flush)]_vars

\* the fourth attempt has failed with a transient error
C13_Witness ==
    /\ io = "caught"
    /\ exc = "transient"
    /\ attempt = 3

----------------------------------------------------------------------------
(* C14 *)

\* C14: a permanent upload error is followed by no back-off and no further
\* attempt: the flush ends at once with its events counted into dead-letter
\* handling; a back-off sleep only ever follows a transient error.
C14_PermanentNotRetried ==
    /\ [](io = "backoff" => exc = "transient")
    /\ [][(io = "caught" /\ io' # "caught" /\ exc = "permanent") =>
             /\ io' = "none"
             /\ delay' = 0
             /\ buffer_lock' = "free"
             /\ last_error' = "Storage error"
             /\ events_failed' = events_failed + Len(events_to_flush)]_vars

\* the first upload attempt of a flush has failed with a permanent error
C14_Witness ==
    /\ io = "caught"
    /\ exc = "permanent"
    /\ attempt = 0
    /\ events_to_flush # <<>>

----------------------------------------------------------------------------
(* C15 *)

\* C15: after close() has returned (the client handle is detached) no event
\* is accepted into the buffer and no timer is armed.
C15_ClosedRejects ==
    blob_service_client = "None" => (buffer = <<>> /\ flush_timer # "armed")

----------------------------------------------------------------------------
(* C16 *)

\* C16: when consume_batch has failed and left the consumer disconnected, the
\* consumer had made max_reconnect_attempts (10) reconnect attempts that all
\* failed.
C16_GivesUpAfterTenFailures ==
    (/\ api = "idle"
     /\ api_ret = "ConnectionError: failed to consume batch"
     /\ ~(connected_flag /\ client # "None"))
    => failed_attempts >= max_reconnect_attempts

----------------------------------------------------------------------------
(* C17 *)

\* the delays of the claim, by number of the attempt
ClaimedDelays == <<2, 4, 8, 16, 30, 30, 30, 30, 30, 30>>

----------------------------------------------------------------------------
(* C18 *)

\* C18: when checkpoint(batch) has returned, the durable partition checkpoint
\* covers every message delivered so far, the batch's last one included.
C18_CheckpointRecordsBatch ==
    pc = "checkpointed" => checkpoint = next_offset

----------------------------------------------------------------------------
(* C19 *)

\* the connection state of the claim, read off the consumer
ConnState ==
    IF api \in {"connecting", "reconnecting"} THEN "Connecting"
    ELSE IF api = "disconnecting" THEN "Disconnecting"
    ELSE IF connected_flag /\ client # "None" THEN "Connected"
    ELSE "Disconnected"

CycleEdges ==
    {<<"Disconnected", "Connecting">>, <<"Connecting", "Connected">>,
     <<"Connected", "Disconnecting">>, <<"Disconnecting", "Disconnected">>}

\* a failed connect, the reconnect after a consume failure, and the
\* disconnect that closes the client a failed connect left behind
FailureEdges ==
    {<<"Connecting", "Disconnected">>, <<"Connected", "Connecting">>,
     <<"Disconnected", "Disconnecting">>}

GuardedOps == {"consume_batch", "acknowledge_batch", "checkpoint"}

\* a call of consume_batch, acknowledge_batch or checkpoint made in a state
\* other than Connected fails with the connection error and changes nothing
RejectedOutsideConnected ==
    (/\ api_calls' = api_calls + 1
     /\ api_op' \in GuardedOps
     /\ ConnState # "Connected")
    => /\ api_ret' = "ConnectionError: not connected"
       /\ api' = "idle"
       /\ UNCHANGED <<connected_flag, client, reconnect_attempts, position,
                      committed_offset>>

\* C19 as stated: the connection state changes only along Disconnected ->
\* Connecting -> Connected -> Disconnecting -> Disconnected, and the guarded
\* operations are rejected without effect outside Connected.
C19_OnlyAlongCycle ==
    [][/\ ConnState' # ConnState => <<ConnState, ConnState'>> \in CycleEdges
       /\ RejectedOutsideConnected]_vars

\* C19 as the code has it: the connection state changes along the cycle or
\* along one of three more edges (Connecting -> Disconnected when connect
\* fails, Connected -> Connecting when a consume failure starts the
\* reconnect, Disconnected -> Disconnecting when disconnect closes a client
\* that a failed connect left), and the guarded operations are rejected
\* without effect outside Connected.
C19_CycleAndFailureEdges ==
    [][/\ ConnState' # ConnState =>
            <<ConnState, ConnState'>> \in CycleEdges \cup FailureEdges
       /\ RejectedOutsideConnected]_vars

\* a checkpoint call was rejected after the consumer had been connected, had
\* consumed and was disconnected again
C19_Witness ==
    /\ api_op = "checkpoint"
    /\ api_ret = "ConnectionError: not connected"
    /\ position > 0
    /\ ConnState = "Disconnected"

----------------------------------------------------------------------------
(* C20 *)

\* C20: when get_connection has failed with every connection of the pool in
\* use, metrics.pool_exhaustions has counted the failure.
C20_ExhaustionCounted ==
    (pool_ret = "PoolError" /\ pool_used = max_connections)
    => metrics.pool_exhaustions > 0

----------------------------------------------------------------------------
(* C21 *)

\* C21: get_connection never returns a connection that has been idle for
\* longer than idle_timeout.
C21_NoLongIdleReturned ==
    pool_ret = "conn" => IdleSeconds(ret_idle) <= idle_timeout

----------------------------------------------------------------------------
(* C22 *)

\* C22: a connection returned by get_connection passed the health probe made
\* last; a failed first probe is followed by exactly one more probe, of a
\* second connection, and two failed probes end in PoolError with no
\* connection handed out.
C22_HealthyOrError ==
    /\ Len(probes) <= 2
    /\ pool_ret = "conn" => (probes # <<>> /\ probes[Len(probes)] = "healthy")
    /\ (probes # <<>> /\ probes[1] = "unhealthy") => Len(probes) = 2
    /\ probes = <<"unhealthy", "unhealthy">> => (pool_ret = "PoolError" /\ ret_idle = "none")

\* the first connection failed the probe, the second passed and was returned
C22_Witness ==
    /\ probes = <<"unhealthy", "healthy">>
    /\ pool_ret = "conn"

----------------------------------------------------------------------------
(* C23 *)

\* C23: once close_all() has closed the pool, the pool stays closed: it is not
\* initialized again and no call returns a connection.
C23_ClosedStaysClosed ==
    pool_closed => (~initialized /\ pool_ret # "conn")

----------------------------------------------------------------------------
(* C24 *)

\* C24: when _store_dynamic_metrics has ended without committing the
\* message's metric rows, the write had been attempted three times.
C24_ThreeWriteAttempts ==
    (pc = "agg" /\ dyn[CurOffset] = 0) => db_attempts = 3

----------------------------------------------------------------------------
(* C25 *)

\* the broker delivers each offset once, in increasing order: a sequence of
\* offsets is a subsequence of the delivery order iff it increases strictly
InDeliveryOrder(seq) ==
    \A i \in 1..Len(seq) : \A j \in 1..Len(seq) : i < j => seq[i] < seq[j]

\* the archive sink: events of the blobs are in order within a blob and
\* from one blob to the next
ArchiveInOrder ==
    /\ \A b \in 1..Len(blobs) : InDeliveryOrder(blobs[b])
    /\ \A b \in 1..Len(blobs) : \A c \in 1..Len(blobs) :
          b < c => \A i \in 1..Len(blobs[b]) : \A j \in 1..Len(blobs[c]) :
                      blobs[b][i] < blobs[c][j]

\* the dead-letter sink: the transaction ids of the rows that carry one
DeadLetterInOrder ==
    \A i \in 1..Len(failed_items) : \A j \in 1..Len(failed_items) :
        (i < j /\ failed_items[i].tx # 0 /\ failed_items[j].tx # 0)
        => failed_items[i].tx < failed_items[j].tx

\* C25: on the archive sink and on the dead-letter sink the transaction ids
\* written for the partition appear in the broker's delivery order, each at
\* most once, whatever the interleaving of the loop with the flush timer.
C25_PerPartitionOrder == ArchiveInOrder /\ DeadLetterInOrder

----------------------------------------------------------------------------
(* The aggregate row after upserts *)

RECURSIVE SumOf(_)
SumOf(seq) == IF seq = <<>> THEN 0 ELSE seq[1] + SumOf(Tail(seq))

MinOf(seq) == CHOOSE a \in {seq[i] : i \in 1..Len(seq)} :
                  \A i \in 1..Len(seq) : a <= seq[i]
MaxOf(seq) == CHOOSE a \in {seq[i] : i \in 1..Len(seq)} :
                  \A i \in 1..Len(seq) : a >= seq[i]

\* C26: after n >= 1 committed upserts with amounts a1..an into one key, the
\* row of the key holds total_count = n, total_amount = a1 + ... + an,
\* avg_amount = total_amount / total_count, min_amount = min(ai) and
\* max_amount = max(ai).
C26_RowSummarisesUpserts ==
    \A k \in Keys :
        upserts[k] # <<>> =>
            LET row == payment_metrics_5m[k]
                n == Len(upserts[k])
            IN  /\ row.total_count = n
                /\ row.total_amount = SumOf(upserts[k])
                /\ row.avg_amount[1] * row.total_count
                       = row.total_amount * row.avg_amount[2]
                /\ row.avg_amount[2] > 0
                /\ row.min_amount = MinOf(upserts[k])
                /\ row.max_amount = MaxOf(upserts[k])

\* three upserts into one key whose average is not a whole number of minor units
C26_Witness ==
    /\ upserts["k1"] = <<4, 1, 2>>
    /\ payment_metrics_5m["k1"].avg_amount = <<7, 3>>
    /\ payment_metrics_5m["k1"].total_count = 3

\* the row the upserts of seq leave in an empty table, applied in order
RECURSIVE MergeAll(_)
MergeAll(seq) ==
    IF seq = <<>> THEN NoRow
    ELSE UpsertRow(MergeAll(SubSeq(seq, 1, Len(seq) - 1)), seq[Len(seq)])

\* C27: the upserts of a key applied in any other order leave the same
\* total_count, total_amount, min_amount, max_amount and avg_amount.
C27_OrderIndependent ==
    \A k \in Keys :
        \A p \in Permutations(1..Len(upserts[k])) :
            MergeAll([i \in 1..Len(upserts[k]) |-> upserts[k][p[i]]])
                = payment_metrics_5m[k]

\* three different amounts merged in an order that is neither ascending nor
\* descending
C27_Witness ==
    /\ upserts["k2"] = <<2, 4, 1>>
    /\ payment_metrics_5m["k2"].total_count = 3
    /\ payment_metrics_5m["k2"].min_amount = 1
    /\ payment_metrics_5m["k2"].max_amount = 4

----------------------------------------------------------------------------
(* The date partition of an archived event *)

\* C28: every archived event lies in a blob under the date partition of its
\* own created_at, so get_events_by_date(d) returns every archived event
\* created on day d, also when it was flushed after midnight.
C28_PartitionedByCreationDate ==
    \A b \in 1..Len(blob_day) : \A i \in 1..Len(blobs[b]) :
        blobs[b][i] \in GetEventsByDate(created_at[blobs[b][i]])

----------------------------------------------------------------------------
(* acknowledge_batch and checkpoint with an empty batch *)

\* a call of acknowledge_batch or checkpoint that was given an empty batch
EmptyBatchCall ==
    /\ api_calls' # api_calls
    /\ api_op' \in {"acknowledge_batch", "checkpoint"}
    /\ api_batch' = "empty"

\* C29 as stated: acknowledge_batch and checkpoint called with an empty batch
\* fail with the invalid-argument error (ValueError) and commit nothing, on
\* both consumer classes.
C29_EmptyBatchInvalidArgument ==
    [][EmptyBatchCall =>
          (api_ret' = "ValueError" /\ committed_offset' = committed_offset)]_vars

\* C29 amended: on a connected consumer the call fails with ValueError; on a
\* consumer that is not connected the connection check comes first and the
\* call fails with ConnectionError; nothing is committed either way.
C29_EmptyBatchRejected ==
    [][EmptyBatchCall =>
          /\ api_ret' = IF IsConnected(connected_flag, client)
                        THEN "ValueError"
                        ELSE "ConnectionError: not connected"
          /\ committed_offset' = committed_offset]_vars

\* a connected Kafka consumer that has consumed messages rejects the
\* checkpoint of an empty batch
C29_Witness ==
    /\ adapter = "kafka"
    /\ api_op = "checkpoint"
    /\ api_batch = "empty"
    /\ api_ret = "ValueError"
    /\ position > committed_offset

----------------------------------------------------------------------------
(* Empty identifiers *)

\* the identifier fields of a payload
IdFields == {"transaction_id", "correlation_id", "merchant_id", "customer_id"}

\* C30: parsing returns a ValidationError for any payload in which
\* transaction_id, correlation_id, merchant_id or customer_id is an empty
\* string.
C30_EmptyIdRejected ==
    (/\ parse_result # NotParsed
     /\ \E f \in IdFields : data[f] = [type |-> "str", value |-> ""])
        => ~parse_result.success

----------------------------------------------------------------------------
(* The timestamp of a parsed transaction *)

\* C31: the parser gives a transaction the current time as its timestamp only
\* when the payload has no timestamp (and the configuration opts in); a
\* timestamp that is present but not valid ISO-8601 never becomes "now".
C31_NowOnlyWhenAbsent ==
    parse_result.timestamp = "utcnow" => data.timestamp.type = "missing"

----------------------------------------------------------------------------
(* parse_batch and the dead-letter handler *)

\* the outcomes parse_batch owes for the first n messages of thread t
Expected(t, n) == [i \in 1..n |-> ParseSuccess(messages[t][i])]

\* C32: an exception raised inside the dead-letter handler never breaks the
\* parse loop: parse_batch never ends by an exception, its results are at
\* every moment the outcomes of the messages parsed so far, in input order,
\* and when it returns there is exactly one result per input message.
C32_OneOutcomePerMessage ==
    \A t \in Threads :
        /\ parse_pc[t] # "raised"
        /\ Len(results[t]) <= Len(messages[t])
        /\ results[t] = Expected(t, Len(results[t]))
        /\ parse_pc[t] = "done" => Len(results[t]) = Len(messages[t])

\* a batch whose first message was rejected and whose handler raised, parsed
\* to its end
C32_Witness ==
    /\ messages["t1"] = <<"invalid", "valid">>
    /\ handled["t1"] = <<"raises">>
    /\ parse_pc["t1"] = "done"
    /\ results["t1"] = <<FALSE, TRUE>>

\* no thread is inside parse_and_validate
NoParseInProgress == \A t \in Threads : parse_pc[t] \in {"call", "done"}

\* C36: whenever no parse call is in progress, total_processed = successful +
\* failed, under any interleaving of parse_and_validate and reset_metrics.
C36_MetricsAddUp ==
    NoParseInProgress =>
        parser_metrics.total_processed
            = parser_metrics.successful + parser_metrics.failed

\* C37: parse_and_validate never runs the dead-letter handler while it holds
\* the metrics lock, so a handler that calls get_metrics() never waits for a
\* lock its own thread holds.
C37_HandlerOutsideLock ==
    \A t \in Threads :
        parse_pc[t] \in {"handler", "lock_wait"} => metrics_lock # t

----------------------------------------------------------------------------
(* The database helpers of run.py *)

\* C33: every connection a database helper acquires is released again,
\* whether the write succeeds or fails: once a helper has returned, no
\* connection is checked out.
C33_NoConnectionCheckedOut == conns_out = 0

\* a database helper runs and returns
HelperStep == pc \in {"dyn", "agg", "hist", "dlq_val", "dlq_exc"} /\ pc' # pc

\* the helper's transaction was committed
HelperCommitted ==
    dyn' # dyn \/ agg' # agg \/ hist' # hist \/ failed_items' # failed_items

\* C34: a database helper returns True exactly when its transaction was
\* committed and False exactly when nothing was committed.
C34_TrueIffCommitted ==
    [][HelperStep => (ret' = TRUE <=> HelperCommitted)]_vars

----------------------------------------------------------------------------
(* The archive path and the metric path *)

----------------------------------------------------------------------------
(* Event conservation in the archiver *)

\* how often event e occurs in a sequence of events
RECURSIVE Count(_, _)
Count(e, seq) ==
    IF seq = <<>> THEN 0
    ELSE (IF seq[1] = e THEN 1 ELSE 0) + Count(e, Tail(seq))

RECURSIVE CountInBlobs(_, _)
CountInBlobs(e, bs) ==
    IF bs = <<>> THEN 0 ELSE Count(e, bs[1]) + CountInBlobs(e, Tail(bs))

\* places event e is held in: the buffer, a running flush, the uploaded blobs
Holders(e) == Count(e, buffer) + Count(e, events_to_flush) + CountInBlobs(e, blobs)

\* no store call and no flush is in progress
StoreQuiescent == call = "idle" /\ buffer_lock = "free" /\ io = "none"

\* C38: under any interleaving of buffer_event calls, timer flushes and
\* manual flushes every accepted event is taken by exactly one flush (it is
\* never in two places and never uploaded twice), and at every quiescent
\* point accepted = events_stored + events_failed + len(buffer).
C38_EventConservation ==
    /\ \A e \in 1..accepted : Holders(e) <= 1
    /\ events_stored = Cardinality({e \in 1..accepted : CountInBlobs(e, blobs) > 0})
    /\ StoreQuiescent => accepted = events_stored + events_failed + Len(buffer)

\* a quiescent archiver that has uploaded a blob, lost a flush and still
\* buffers an event
C38_Witness ==
    /\ StoreQuiescent
    /\ events_stored > 0
    /\ events_failed > 0
    /\ Len(buffer) > 0

----------------------------------------------------------------------------
(* The flush timer and the buffer *)

\* self._flush_timer is a started Timer: it is armed, or it has expired and
\* its callback has not flushed yet
TimerSet == flush_timer \in {"armed", "fired"}

\* C39 as stated: at every point where the buffer lock is free a timer is
\* armed if and only if the buffer is non-empty.
C39_TimerIffBuffer ==
    buffer_lock = "free" => (TimerSet <=> buffer # <<>>)

\* C39 amended: with the lock free, a timer is set only for a non-empty
\* buffer, and a non-empty buffer has its timer set unless close() has
\* cancelled it and is about to flush; a callback that runs after its buffer
\* was flushed by another trigger loses no event and uploads none twice.
C39_TimerMatchesBuffer ==
    /\ buffer_lock = "free" => (TimerSet => buffer # <<>>)
    /\ buffer_lock = "free" => (buffer # <<>> => (TimerSet \/ call = "close_wait"))
    /\ \A e \in 1..accepted : Holders(e) <= 1
    /\ StoreQuiescent => accepted = events_stored + events_failed + Len(buffer)

\* a timer has expired, its buffer was uploaded by another trigger before the
\* callback got the lock, and the callback is about to run on the next buffer
C39_Witness ==
    /\ callbacks > 0
    /\ buffer_lock = "free"
    /\ events_stored >= BatchSize
    /\ flush_timer = "armed"
    /\ buffer # <<>>

----------------------------------------------------------------------------
(* close() with concurrent buffer_event calls *)

\* buffer_event(event) on a second thread, from the lock acquisition to the
\* first network I/O or to the return
OtherBufferEvent(S) ==
    /\ accepted < MaxEvents
    /\ buffer_lock = "free"
    /\ accepted' = accepted + 1
    /\ LET nb == Append(buffer, accepted + 1)
           buffer_size == Len(nb)
       IN  IF SizeTrigger(buffer_size)
           THEN FlushTake("other", nb, S)
           ELSE /\ buffer' = nb
                /\ flush_timer' = TimerAfterAppend(buffer_size, flush_timer)
                /\ UNCHANGED <<buffer_lock, io, attempt, delay, events_to_flush,
                               blobs, events_stored, events_failed, last_error,
                               exc, blob_service_client, call,
                               batches_flushed, failed_items>>
    /\ UNCHANGED <<callbacks, call_ev>>

\* The client thread only calls close(); the events come from the second
\* thread and the flushes from it, from the timer and from close().
NextClose ==
    \/ (OtherBufferEvent(SerOutcomes) /\ UNCHANGED othersOfStore)
    \/ (TimerFire /\ UNCHANGED othersOfStore)
    \/ (TimerFlushLocked(SerOutcomes) /\ UNCHANGED othersOfStore)
    \/ (UploadOk /\ UNCHANGED othersOfStore)
    \/ (UploadError(UploadErrors) /\ UNCHANGED othersOfStore)
    \/ (HandleUploadError /\ UNCHANGED othersOfStore)
    \/ (BackoffDone /\ UNCHANGED othersOfStore)
    \/ (ClientClose /\ UNCHANGED othersOfStore)
    \/ (CloseFlushLocked(SerOutcomes) /\ UNCHANGED othersOfStore)
    \/ (ClientReturn /\ UNCHANGED othersOfStore)

SpecClose == InitStoreSpec /\ [][NextClose]_vars

\* close() returns to its caller
CloseReturns == call \in {"ret_ok", "ret_err"} /\ call' = "idle"

\* C40: when close() returns, every accepted event has been uploaded or
\* dead-lettered, the buffer is empty and no timer is armed, whatever
\* buffer_event calls and timer callbacks ran concurrently.
C40_CloseLosesNothing ==
    [][CloseReturns =>
          /\ buffer = <<>>
          /\ flush_timer # "armed"
          /\ accepted = events_stored + events_failed]_vars

====
